---- MODULE Spec2Model ----
(***************************************************************************)
(* Collapsization game engine (src/training/collapsization/game.py and    *)
(* constants.py) as a state machine.  One variable per field of           *)
(* CollapsizationState; one action per kind of move applied through       *)
(* apply_action.  Cards are the dictionaries of make_card (suit, rank,    *)
(* value), hexes are cube-coordinate triples, action IDs are the integers *)
(* of the flat action space.  turn_rewards holds floats that are always   *)
(* multiples of 0.5: the model stores twice the value.                    *)
(***************************************************************************)
EXTENDS Integers, Sequences, FiniteSets, TLC

\* ------------------------------------------------------------------------
\* constants.py
\* ------------------------------------------------------------------------
HEARTS == 0
DIAMONDS == 1
SPADES == 2
Suits == {HEARTS, DIAMONDS, SPADES}

MAYOR == 0
INDUSTRY == 1
URBANIST == 2
\* pyspiel.PlayerId.CHANCE / TERMINAL as returned by current_player
CHANCE_PLAYER == -1
TERMINAL_PLAYER == -4

RANKS == <<"2", "3", "4", "5", "6", "7", "8", "9", "10", "J", "K", "Q", "A">>

NUM_SUITS == 3
NUM_RANKS == 13
NUM_CARDS == NUM_SUITS * NUM_RANKS

\* RANK_VALUES: "2".."10" -> 2..10, J -> 11, K -> 12, Q -> 13, A -> 14
RankValue(rank) ==
    CASE rank = "2" -> 2 [] rank = "3" -> 3 [] rank = "4" -> 4
      [] rank = "5" -> 5 [] rank = "6" -> 6 [] rank = "7" -> 7
      [] rank = "8" -> 8 [] rank = "9" -> 9 [] rank = "10" -> 10
      [] rank = "J" -> 11 [] rank = "K" -> 12 [] rank = "Q" -> 13
      [] rank = "A" -> 14

make_card(suit, rank) == [suit |-> suit, rank |-> rank, value |-> RankValue(rank)]

\* The empty dictionary {} that index_to_card returns out of range; the code
\* reads it with .get("suit", -1) and .get("value", 0).
EmptyCard == [suit |-> -1, rank |-> "", value |-> 0]

RankIndex(rank) == CHOOSE i \in 1..NUM_RANKS : RANKS[i] = rank

card_to_index(card) ==
    IF card = EmptyCard \/ card.rank \notin {RANKS[i] : i \in 1..NUM_RANKS}
    THEN -1
    ELSE card.suit * NUM_RANKS + (RankIndex(card.rank) - 1)

index_to_card(idx) ==
    IF idx < 0 \/ idx >= NUM_CARDS
    THEN EmptyCard
    ELSE make_card(idx \div NUM_RANKS, RANKS[(idx % NUM_RANKS) + 1])

HEX_DIRECTIONS ==
    << <<1, -1, 0>>, <<1, 0, -1>>, <<0, 1, -1>>,
       <<-1, 1, 0>>, <<-1, 0, 1>>, <<0, -1, 1>> >>

get_adjacent_hexes(cube) ==
    [d \in 1..6 |-> << cube[1] + HEX_DIRECTIONS[d][1],
                       cube[2] + HEX_DIRECTIONS[d][2],
                       cube[3] + HEX_DIRECTIONS[d][3] >>]

\* ------------------------------------------------------------------------
\* game.py: action space layout
\* ------------------------------------------------------------------------
MAX_FRONTIER_SIZE == 50
FACILITIES_TO_COMPLETE == 10
MAX_NOMINATIONS == 4
HAND_DRAWS == 4

ACTION_REVEAL_BASE == 0
ACTION_REVEAL_COUNT == 4
ACTION_CONTROL_BASE == ACTION_REVEAL_COUNT
ACTION_CONTROL_SUIT_A == ACTION_CONTROL_BASE + 0
ACTION_CONTROL_SUIT_B == ACTION_CONTROL_BASE + 1
ACTION_CONTROL_HEX_BASE == ACTION_CONTROL_BASE + 2
ACTION_CONTROL_HEX_COUNT == MAX_FRONTIER_SIZE * MAX_FRONTIER_SIZE
ACTION_CONTROL_REVEAL_BASE == ACTION_CONTROL_BASE + 2 + ACTION_CONTROL_HEX_COUNT
ACTION_CONTROL_REVEAL_COUNT == MAX_FRONTIER_SIZE
ACTION_CONTROL_COUNT == 2 + ACTION_CONTROL_HEX_COUNT + ACTION_CONTROL_REVEAL_COUNT
ACTION_COMMIT_BASE == ACTION_CONTROL_BASE + ACTION_CONTROL_COUNT
ACTION_COMMIT_COUNT == MAX_FRONTIER_SIZE * NUM_CARDS
ACTION_BUILD_BASE == ACTION_COMMIT_BASE + ACTION_COMMIT_COUNT
ACTION_BUILD_COUNT == 4 * MAX_NOMINATIONS
ACTION_CHANCE_BASE == ACTION_BUILD_BASE + ACTION_BUILD_COUNT
ACTION_CHANCE_COUNT == NUM_CARDS
TOTAL_ACTIONS == ACTION_CHANCE_BASE + ACTION_CHANCE_COUNT

\* ------------------------------------------------------------------------
\* Bounds of the exploration
\* ------------------------------------------------------------------------
\* The game parameter max_frontier (default MAX_FRONTIER_SIZE) of the games
\* explored turn by turn.
MaxFrontier == 2
\* Turns explored from each start state.
MaxTurns == 1

SeqToSet(s) == {s[i] : i \in 1..Len(s)}
Min(a, b) == IF a < b THEN a ELSE b

Reverse(s) == [i \in 1..Len(s) |-> s[Len(s) + 1 - i]]

\* ------------------------------------------------------------------------
\* Deck (game.py: _build_deck, _draw_card)
\* ------------------------------------------------------------------------
\* random.shuffle is an input of the run: a deck order is one permutation of
\* the 39 cards.  The permutation k -> (stride * k + first) mod 39, stride
\* coprime to 39, makes the k-th card popped the card with that index.
DeckOrder(first, stride) ==
    [i \in 1..NUM_CARDS |->
        index_to_card((stride * (NUM_CARDS - i) + first) % NUM_CARDS)]

\* The reshuffle of the discard pile: the identity or the reversal.
ShuffleInputs == {"keep", "reverse"}
Shuffled(cards, sh) == IF sh = "reverse" THEN Reverse(cards) ELSE cards

\* The pop at the end of _draw_card, from the deck left after the reshuffle.
PopCard(deck1, discard1) ==
    IF deck1 = <<>>
    THEN [card |-> make_card(HEARTS, "7"), deck |-> <<>>, discard |-> discard1]
    ELSE [card |-> deck1[Len(deck1)],
          deck |-> SubSeq(deck1, 1, Len(deck1) - 1),
          discard |-> discard1]

\* _draw_card on the piles p = [deck, discard]: the card and the piles after.
DrawCard(p, sh) ==
    IF p.deck = <<>>
    THEN PopCard(Shuffled(p.discard, sh), <<>>)
    ELSE PopCard(p.deck, p.discard)

\* ------------------------------------------------------------------------
\* Map (game.py: _reveal_around, _get_playable_frontier)
\* ------------------------------------------------------------------------
TownCenter == <<0, 0, 0>>

\* The loop of _reveal_around / _reveal_initial_frontier (max_initial_spades
\* < 0) over the neighbours d..6 of hex: m = [reality, deck, discard].
\* self._reality[adj] = self._draw_card(), r being what _draw_card returned.
Assigned(m, adj, r) ==
    [reality |-> (adj :> r.card) @@ m.reality, deck |-> r.deck, discard |-> r.discard]

\* One neighbour adj of the loop: a card is drawn for it if it has none.
RevealHex(m, adj, sh) ==
    IF adj \in DOMAIN m.reality THEN m
    ELSE Assigned(m, adj, DrawCard([deck |-> m.deck, discard |-> m.discard], sh))

RECURSIVE RevealLoop(_, _, _, _)
RevealLoop(m, hex, d, sh) ==
    IF d > 6 THEN m
    ELSE RevealLoop(RevealHex(m, get_adjacent_hexes(hex)[d], sh), hex, d + 1, sh)

RevealAround(m, hex, sh) == RevealLoop(m, hex, 1, sh)

\* _get_playable_frontier: the loop over the built hexes, frontier being the
\* list so far and p the index of the built hex whose neighbours come next.
\* NewFrontier without the test "adj not in built_set".
NewFrontierAll(built, builtSet, frontier, p) ==
    SelectSeq(get_adjacent_hexes(built[p]),
              LAMBDA adj : adj \notin SeqToSet(frontier))

\* The neighbours of built[p] the inner loop appends: those that are neither
\* built nor in the frontier yet.
NewFrontier(built, builtSet, frontier, p) ==
    SelectSeq(get_adjacent_hexes(built[p]),
              LAMBDA adj : adj \notin builtSet /\ adj \notin SeqToSet(frontier))

RECURSIVE FrontierFrom(_, _, _, _)
FrontierFrom(built, builtSet, frontier, p) ==
    IF p > Len(built) THEN frontier
    ELSE FrontierFrom(built, builtSet,
                      frontier \o NewFrontier(built, builtSet, frontier, p), p + 1)

GetPlayableFrontier(built) == FrontierFrom(built, SeqToSet(built), <<>>, 1)

\* min(len(frontier), self._game.max_frontier)
FrontierCap(s, frontier) == Min(Len(frontier), s.max_frontier)

\* ------------------------------------------------------------------------
\* The game state as a record s (the fields of CollapsizationState), and the
\* read-only queries over it
\* ------------------------------------------------------------------------
AllClaims == 0..(NUM_CARDS - 1)
EmptyDict == [k \in {} |-> TownCenter]

RoleKey(player) == IF player = INDUSTRY THEN "industry" ELSE "urbanist"

\* current_player without the test of the pending draws: in DRAW the tag
\* "drawing" alone tells chance from the Mayor.
current_player_by_phase(s) ==
    IF s.is_terminal THEN TERMINAL_PLAYER
    ELSE IF s.phase = "DRAW"
         THEN (IF s.sub_phase = "drawing" THEN CHANCE_PLAYER ELSE MAYOR)
    ELSE IF s.phase = "CONTROL" THEN MAYOR
    ELSE IF s.phase = "NOMINATE"
         THEN (IF s.sub_phase \in {"urbanist_commit_1", "urbanist_commit_2"}
               THEN URBANIST ELSE INDUSTRY)
    ELSE IF s.phase = "PLACE" THEN MAYOR
    ELSE TERMINAL_PLAYER

current_player(s) ==
    IF s.is_terminal THEN TERMINAL_PLAYER
    ELSE IF s.pending_draws > 0 THEN CHANCE_PLAYER
    ELSE IF s.phase = "DRAW"
         THEN (IF s.sub_phase = "drawing" THEN CHANCE_PLAYER ELSE MAYOR)
    ELSE IF s.phase = "CONTROL" THEN MAYOR
    ELSE IF s.phase = "NOMINATE"
         THEN (IF s.sub_phase \in {"industry_commit_1", "industry_commit_2"}
               THEN INDUSTRY
               ELSE IF s.sub_phase \in {"urbanist_commit_1", "urbanist_commit_2"}
                    THEN URBANIST
                    ELSE INDUSTRY)
    ELSE IF s.phase = "PLACE" THEN MAYOR
    ELSE TERMINAL_PLAYER

returns(s) == <<s.scores.mayor, s.scores.industry, s.scores.urbanist>>

chance_legal_actions == ACTION_CHANCE_BASE..(ACTION_CHANCE_BASE + NUM_CARDS - 1)

\* draw_legal_actions without the test of the revealed slots.
draw_legal_actions_any_slot(s) ==
    {ACTION_REVEAL_BASE + i : i \in 0..(Len(s.hand) - 1)}

draw_legal_actions(s) ==
    {ACTION_REVEAL_BASE + i : i \in {j \in 0..(Len(s.hand) - 1) :
                                        j \notin SeqToSet(s.revealed_indices)}}

\* ControlActions with the reveal of a frontier hex offered as a control.
ControlActionsWithReveal(max_frontier) ==
    {ACTION_CONTROL_SUIT_A, ACTION_CONTROL_SUIT_B}
    \cup {ACTION_CONTROL_HEX_BASE + urb_idx * MAX_FRONTIER_SIZE + ind_idx :
            urb_idx \in 0..(max_frontier - 1), ind_idx \in 0..(max_frontier - 1)}
    \cup {ACTION_CONTROL_REVEAL_BASE + hex_idx : hex_idx \in 0..(max_frontier - 1)}

\* The control actions for a frontier capped at max_frontier hexes.
ControlActions(max_frontier) ==
    {ACTION_CONTROL_SUIT_A, ACTION_CONTROL_SUIT_B}
    \cup {ACTION_CONTROL_HEX_BASE + urb_idx * MAX_FRONTIER_SIZE + ind_idx :
            urb_idx \in 0..(max_frontier - 1), ind_idx \in 0..(max_frontier - 1)}

control_legal_actions(s) ==
    ControlActions(FrontierCap(s, GetPlayableFrontier(s.built_hexes)))

\* RefilledTray without the refill.
KeptTray(tray) == tray

\* The tray _nominate_legal_actions works on: it refills an empty tray.
RefilledTray(tray) == IF tray = {} THEN AllClaims ELSE tray

\* The suit FORCE_SUITS assigns to role_key, or -1 when no suit is forced.
ForcedSuit(s, role_key) ==
    IF s.control_mode = "FORCE_SUITS" /\ s.forced_suit_config # "None"
    THEN IF s.forced_suit_config = "URB_DIAMOND_IND_HEART"
         THEN (IF role_key = "urbanist" THEN DIAMONDS ELSE HEARTS)
         ELSE (IF role_key = "urbanist" THEN HEARTS ELSE DIAMONDS)
    ELSE -1

IsFirstNom(s) == s.sub_phase \in {"industry_commit_1", "urbanist_commit_1"}
IsSecondNom(s) == s.sub_phase \in {"industry_commit_2", "urbanist_commit_2"}
HasFirst(s, role_key) == IsSecondNom(s) /\ s.advisor_commits[role_key] # <<>>

\* HexOk without the filter of FORCE_HEXES.
HexOkUnforced(s, role_key, hex) ==
    ~(HasFirst(s, role_key) /\ hex = s.advisor_commits[role_key][1].hex)

\* The hex at frontier[hex_idx] passes the filters of the hex loop.
HexOk(s, role_key, hex) ==
    /\ ~(/\ IsFirstNom(s)
         /\ s.control_mode = "FORCE_HEXES"
         /\ role_key \in DOMAIN s.forced_hexes
         /\ hex # s.forced_hexes[role_key])
    /\ ~(HasFirst(s, role_key) /\ hex = s.advisor_commits[role_key][1].hex)

\* The claim passes the forced-suit filter of the claim loop.
ClaimOk(s, role_key, forced_suit, claim_idx) ==
    ~(/\ forced_suit # -1
      /\ IsSecondNom(s)
      /\ (IF HasFirst(s, role_key)
          THEN s.advisor_commits[role_key][1].claim.suit # forced_suit
          ELSE TRUE)
      /\ index_to_card(claim_idx).suit # forced_suit)

CommitActions(hexes, claims) ==
    {ACTION_COMMIT_BASE + hex_idx * NUM_CARDS + claim_idx :
        hex_idx \in hexes, claim_idx \in claims}

\* The list built by the two loops, or the fallback when it is empty.
OrFallback(actions, hexes, tray) ==
    IF actions # {} THEN actions ELSE CommitActions(hexes, tray)

NominateActions(s, role_key, frontier, hexes, tray) ==
    IF frontier = <<>> THEN {}
    ELSE OrFallback(
            CommitActions({h \in hexes : HexOk(s, role_key, frontier[h + 1])},
                          {c \in tray : ClaimOk(s, role_key,
                                                ForcedSuit(s, role_key), c)}),
            hexes, tray)

FrontierActions(s, role_key, frontier) ==
    NominateActions(s, role_key, frontier, 0..(FrontierCap(s, frontier) - 1),
                    RefilledTray(s.advisor_trays[role_key]))

nominate_legal_actions(s, player) ==
    FrontierActions(s, RoleKey(player), GetPlayableFrontier(s.built_hexes))

\* The nominations _place_legal_actions works on: it fills an empty list from
\* the frontier.
DefaultNominations(frontier) ==
    IF frontier = <<>> THEN <<>>
    ELSE <<[hex |-> frontier[1], claim |-> EmptyCard, advisor |-> "industry"]>>
         \o (IF Len(frontier) > 1
             THEN <<[hex |-> frontier[2], claim |-> EmptyCard, advisor |-> "urbanist"]>>
             ELSE <<>>)

RepairedNominations(s) ==
    IF s.nominations # <<>> THEN s.nominations
    ELSE DefaultNominations(GetPlayableFrontier(s.built_hexes))

\* PlaceActions with one VERIFY for a hex, that of its first nomination.
PlaceActionsOncePerHex(s, noms) ==
    {ACTION_BUILD_BASE + card_idx * MAX_NOMINATIONS + nom_idx :
        card_idx \in 0..(Len(s.hand) - 1), nom_idx \in 0..(Len(noms) - 1)}
    \cup {ACTION_CONTROL_REVEAL_BASE + nom_idx :
            nom_idx \in {n \in 0..(Len(noms) - 1) :
                            /\ noms[n + 1].hex \notin s.mayor_verified_hexes
                            /\ \A m \in 0..(n - 1) : noms[m + 1].hex # noms[n + 1].hex}}

\* The BUILD and VERIFY actions over the nominations noms.
PlaceActions(s, noms) ==
    {ACTION_BUILD_BASE + card_idx * MAX_NOMINATIONS + nom_idx :
        card_idx \in 0..(Len(s.hand) - 1), nom_idx \in 0..(Len(noms) - 1)}
    \cup {ACTION_CONTROL_REVEAL_BASE + nom_idx :
            nom_idx \in {n \in 0..(Len(noms) - 1) :
                            noms[n + 1].hex \notin s.mayor_verified_hexes}}

place_legal_actions(s) == PlaceActions(s, RepairedNominations(s))

\* legal_actions(player): the list returned, as a set.
legal_actions_for(s, player) ==
    IF s.is_terminal THEN {}
    ELSE IF player = CHANCE_PLAYER THEN chance_legal_actions
    ELSE IF s.phase = "DRAW" THEN draw_legal_actions(s)
    ELSE IF s.phase = "CONTROL" THEN control_legal_actions(s)
    ELSE IF s.phase = "NOMINATE" THEN nominate_legal_actions(s, player)
    ELSE IF s.phase = "PLACE" THEN place_legal_actions(s)
    ELSE {}

\* legal_actions(): player defaults to current_player().
legal_actions(s) == legal_actions_for(s, current_player(s))

\* The state a call of legal_actions() leaves behind: the tray of the advisor
\* to move refilled, an empty nomination list repaired.
AfterLegalActions(s) ==
    IF s.is_terminal \/ current_player(s) = CHANCE_PLAYER THEN s
    ELSE IF s.phase = "NOMINATE" /\ GetPlayableFrontier(s.built_hexes) # <<>>
    THEN [s EXCEPT !.advisor_trays[RoleKey(current_player(s))] = RefilledTray(@)]
    ELSE IF s.phase = "PLACE"
    THEN [s EXCEPT !.nominations = RepairedNominations(s)]
    ELSE s

\* ------------------------------------------------------------------------
\* Observations (observation.py: ObservationEncoder; game.py:
\* _observation_tensor)
\* ------------------------------------------------------------------------
INVALID_HEX == <<2147483647, 0, 0>>
MAX_BUILT_SIZE == 50
REVEALED_CARDS == 2
HAND_SIZE == 4

\* self._hex_to_idx[hex_coord] over the table, the list _idx_to_hex: the
\* position of hex in it, -1 when it has none.
IndexIn(table, hex) ==
    IF \E i \in 1..Len(table) : table[i] = hex
    THEN (CHOOSE i \in 1..Len(table) : table[i] = hex) - 1
    ELSE -1

\* The table get_hex_index(hex) leaves behind: a hex it does not hold is
\* appended while the table has fewer than max_frontier entries, size here.
Registered(table, hex, size) ==
    IF hex = INVALID_HEX \/ hex \in SeqToSet(table) \/ Len(table) >= size
    THEN table
    ELSE Append(table, hex)

\* The index get_hex_index(hex) returns.
get_hex_index(table, hex, size) == IndexIn(Registered(table, hex, size), hex)

\* The table after get_hex_index on each hex of the list from position i on;
\* a full table is left as it is by every call.
RECURSIVE RegisteredAll(_, _, _, _)
RegisteredAll(table, hexes, i, size) ==
    IF i > Len(hexes) \/ Len(table) >= size THEN table
    ELSE RegisteredAll(Registered(table, hexes[i], size), hexes, i + 1, size)

\* The table a call of legal_actions() leaves behind: the hex loop of
\* _nominate_legal_actions registers each hex that passes its filters.
LegalActionsRegistered(s, table) ==
    IF s.is_terminal \/ current_player(s) = CHANCE_PLAYER \/ s.phase # "NOMINATE"
    THEN table
    ELSE RegisteredAll(
            table,
            SelectSeq(SubSeq(GetPlayableFrontier(s.built_hexes), 1,
                             FrontierCap(s, GetPlayableFrontier(s.built_hexes))),
                      LAMBDA h : HexOk(s, RoleKey(current_player(s)), h)),
            1, s.max_frontier)

\* encode_card: the position of the one in the vector of 40, the last being
\* the null indicator.
encode_card(card) ==
    IF card = EmptyCard \/ card_to_index(card) < 0 THEN NUM_CARDS
    ELSE card_to_index(card)

\* encode_hex_mask: the positions set to one.  The table is the one the call
\* leaves behind: an index once given is what every later lookup gives, and a
\* hex refused is refused by a full table, which stays full.
encode_hex_mask(table, hexes, size) ==
    {IndexIn(table, h) : h \in SeqToSet(hexes)} \cap (0..(size - 1))

\* cards[i] if i < len(cards) else None, for the position i + 1.
CardAt(cards, i) == IF i <= Len(cards) THEN cards[i] ELSE EmptyCard

\* [self._hand[idx] for idx in self._revealed_indices if 0 <= idx < len(hand)]
RevealedCards(s) ==
    LET shown == SelectSeq(s.revealed_indices,
                           LAMBDA idx : 0 <= idx /\ idx < Len(s.hand))
    IN  [i \in 1..Len(shown) |-> s.hand[shown[i] + 1]]

\* [forced_hex] if forced_hex else [], forced_hex = forced_hexes.get(role_key)
ForcedHexOf(s, role_key) ==
    IF role_key \in DOMAIN s.forced_hexes THEN <<s.forced_hexes[role_key]>>
    ELSE <<>>

\* encode_common: the parts of the vector every role gets.  A one-hot part is
\* given by the position of its one, a scaled number by the number.
encode_common(s, table, frontier, revealed_cards) ==
    [phase |-> s.phase, turn |-> s.turn, scores |-> s.scores,
     facilities |-> s.facilities,
     built |-> encode_hex_mask(table, s.built_hexes, MAX_BUILT_SIZE),
     frontier |-> encode_hex_mask(table, frontier, s.max_frontier),
     revealed |-> [i \in 1..REVEALED_CARDS |->
                      encode_card(CardAt(revealed_cards, i))],
     control_mode |-> IF s.control_mode \in {"NONE", "FORCE_SUITS", "FORCE_HEXES"}
                      THEN s.control_mode ELSE "zeros",
     suit_config |-> s.forced_suit_config,
     forced_urbanist |-> encode_hex_mask(table, ForcedHexOf(s, "urbanist"),
                                         s.max_frontier),
     forced_industry |-> encode_hex_mask(table, ForcedHexOf(s, "industry"),
                                         s.max_frontier)]

\* encode_nominations: a hex mask and a claim for each of the four slots.
encode_nominations(table, noms, size) ==
    [i \in 1..MAX_NOMINATIONS |->
        IF i <= Len(noms) /\ noms[i].hex # INVALID_HEX
        THEN [hex |-> encode_hex_mask(table, <<noms[i].hex>>, size),
              claim |-> encode_card(noms[i].claim)]
        ELSE [hex |-> {}, claim |-> NUM_CARDS]]

encode_mayor_observation(s, table, frontier) ==
    [common |-> encode_common(s, table, frontier, RevealedCards(s)),
     hand |-> [i \in 1..HAND_SIZE |-> encode_card(CardAt(s.hand, i))],
     nominations |-> encode_nominations(table, s.nominations, s.max_frontier)]

\* encode_advisor_observation; the reality part holds the card at each
\* frontier hex with an index.
encode_advisor_observation(s, table, frontier, role_key) ==
    [common |-> encode_common(s, table, frontier, RevealedCards(s)),
     reality |-> {<<IndexIn(table, h), encode_card(s.reality[h])>> :
                    h \in {f \in SeqToSet(frontier) :
                              /\ f \in DOMAIN s.reality
                              /\ IndexIn(table, f) \in 0..(s.max_frontier - 1)}},
     tray |-> s.advisor_trays[role_key] \cap (0..(NUM_CARDS - 1)),
     nominations |-> encode_nominations(table, s.nominations, s.max_frontier)]

\* The hexes an observation looks up, in the order of its get_hex_index
\* calls: built, frontier, forced, the reality tiles (advisors), nominated.
ObservedHexes(s, frontier, player) ==
    s.built_hexes \o frontier
    \o ForcedHexOf(s, "urbanist") \o ForcedHexOf(s, "industry")
    \o (IF player = MAYOR THEN <<>>
        ELSE SelectSeq(frontier, LAMBDA h : h \in DOMAIN s.reality))
    \o [i \in 1..Min(Len(s.nominations), MAX_NOMINATIONS) |-> s.nominations[i].hex]

\* The table a call of observation_tensor(player) leaves behind.
TableAfterObservation(s, table, player) ==
    RegisteredAll(table,
                  ObservedHexes(s, GetPlayableFrontier(s.built_hexes), player), 1,
                  s.max_frontier)

\* observation_on with the advisors given the Mayor's vector.
observation_on_of_mayor(s, table, frontier, player) ==
    encode_mayor_observation(
        s, RegisteredAll(table, ObservedHexes(s, frontier, player), 1, s.max_frontier),
        frontier)

\* The vector _observation_tensor(player) returns, frontier being what
\* _get_playable_frontier gave it.
observation_on(s, table, frontier, player) ==
    IF player = MAYOR
    THEN encode_mayor_observation(
            s, RegisteredAll(table, ObservedHexes(s, frontier, player), 1, s.max_frontier),
            frontier)
    ELSE encode_advisor_observation(
            s, RegisteredAll(table, ObservedHexes(s, frontier, player), 1, s.max_frontier),
            frontier, RoleKey(player))

\* _observation_tensor(player)
observation_tensor(s, table, player) ==
    observation_on(s, table, GetPlayableFrontier(s.built_hexes), player)

\* ------------------------------------------------------------------------
\* apply_action: chance, reveal, control, commit
\* ------------------------------------------------------------------------
apply_chance(s, action) ==
    LET card == index_to_card(action - ACTION_CHANCE_BASE)
    IN  [s EXCEPT !.hand = Append(@, card),
                  !.pending_draws = @ - 1,
                  !.sub_phase = IF s.pending_draws - 1 = 0 THEN "ready" ELSE @]

\* apply_reveal without the test of the slots already revealed.
apply_reveal_again(s, action) ==
    LET reveal_idx == action - ACTION_REVEAL_BASE
    IN  IF 0 <= reveal_idx /\ reveal_idx < Len(s.hand)
        THEN LET revealed == Append(s.revealed_indices, reveal_idx)
             IN  [s EXCEPT !.revealed_indices = revealed,
                           !.phase = IF Len(revealed) >= 2 THEN "CONTROL" ELSE @,
                           !.sub_phase = IF Len(revealed) >= 2 THEN "control" ELSE @,
                           !.advisor_commits = [industry |-> <<>>, urbanist |-> <<>>]]
        ELSE s

apply_reveal(s, action) ==
    LET reveal_idx == action - ACTION_REVEAL_BASE
    IN  IF 0 <= reveal_idx /\ reveal_idx < Len(s.hand)
           /\ reveal_idx \notin SeqToSet(s.revealed_indices)
        THEN LET revealed == Append(s.revealed_indices, reveal_idx)
             IN  [s EXCEPT !.revealed_indices = revealed,
                           !.phase = IF Len(revealed) >= 2 THEN "CONTROL" ELSE @,
                           !.sub_phase = IF Len(revealed) >= 2 THEN "control" ELSE @,
                           !.advisor_commits = [industry |-> <<>>, urbanist |-> <<>>]]
        ELSE s

\* The forced hexes of a FORCE_HEXES action, out of the frontier.
ForcedHexes(s, frontier, urb_hex_idx, ind_hex_idx) ==
    IF urb_hex_idx < FrontierCap(s, frontier) /\ ind_hex_idx < FrontierCap(s, frontier)
    THEN [k \in {"urbanist", "industry"} |->
            IF k = "urbanist" THEN frontier[urb_hex_idx + 1]
                              ELSE frontier[ind_hex_idx + 1]]
    ELSE EmptyDict

\* The three branches on the action ID.
ControlChoice(s, action) ==
    IF action = ACTION_CONTROL_SUIT_A
    THEN [s EXCEPT !.control_mode = "FORCE_SUITS",
                   !.forced_suit_config = "URB_DIAMOND_IND_HEART",
                   !.forced_hexes = EmptyDict]
    ELSE IF action = ACTION_CONTROL_SUIT_B
    THEN [s EXCEPT !.control_mode = "FORCE_SUITS",
                   !.forced_suit_config = "URB_HEART_IND_DIAMOND",
                   !.forced_hexes = EmptyDict]
    ELSE IF action >= ACTION_CONTROL_HEX_BASE
    THEN [s EXCEPT !.control_mode = "FORCE_HEXES",
                   !.forced_suit_config = "None",
                   !.forced_hexes =
                       ForcedHexes(s, GetPlayableFrontier(s.built_hexes),
                           (action - ACTION_CONTROL_HEX_BASE) \div MAX_FRONTIER_SIZE,
                           (action - ACTION_CONTROL_HEX_BASE) % MAX_FRONTIER_SIZE)]
    ELSE s

apply_control(s, action) ==
    [ControlChoice(s, action) EXCEPT !.phase = "NOMINATE",
                                     !.sub_phase = "industry_commit_1"]

\* sub_phase_transitions.get(self._sub_phase, "place_ready")
NextSubPhase(sub_phase) ==
    CASE sub_phase = "industry_commit_1" -> "industry_commit_2"
      [] sub_phase = "industry_commit_2" -> "urbanist_commit_1"
      [] sub_phase = "urbanist_commit_1" -> "urbanist_commit_2"
      [] OTHER -> "place_ready"

\* Committed with the flat list built at every commit, not only the fourth.
CommittedListed(s, role_key, claim_idx, commits) ==
    IF NextSubPhase(s.sub_phase) = "place_ready"
    THEN [s EXCEPT !.advisor_commits = commits,
                   !.advisor_trays[role_key] = @ \ {claim_idx},
                   !.nominations = commits.industry \o commits.urbanist,
                   !.phase = "PLACE",
                   !.sub_phase = "ready"]
    ELSE [s EXCEPT !.advisor_commits = commits,
                   !.advisor_trays[role_key] = @ \ {claim_idx},
                   !.nominations = commits.industry \o commits.urbanist,
                   !.sub_phase = NextSubPhase(s.sub_phase)]

\* The commit of nomination nom by role_key, claim_idx leaving the tray.
Committed(s, role_key, claim_idx, commits) ==
    IF NextSubPhase(s.sub_phase) = "place_ready"
    THEN [s EXCEPT !.advisor_commits = commits,
                   !.advisor_trays[role_key] = @ \ {claim_idx},
                   !.nominations = commits.industry \o commits.urbanist,
                   !.phase = "PLACE",
                   !.sub_phase = "ready"]
    ELSE [s EXCEPT !.advisor_commits = commits,
                   !.advisor_trays[role_key] = @ \ {claim_idx},
                   !.sub_phase = NextSubPhase(s.sub_phase)]

\* frontier[hex_idx] is the indexing of a Python list: a negative hex_idx
\* passes the guard and counts from the end of the list, and has no value
\* below -len(frontier) (IndexError, before any assignment).
CommitOn(s, role_key, frontier, hex_idx, claim_idx) ==
    IF hex_idx >= FrontierCap(s, frontier) THEN s
    ELSE Committed(s, role_key, claim_idx,
            [s.advisor_commits EXCEPT ![role_key] =
                Append(@, [hex |-> frontier[IF hex_idx < 0
                                            THEN Len(frontier) + hex_idx + 1
                                            ELSE hex_idx + 1],
                           claim |-> index_to_card(claim_idx),
                           advisor |-> role_key])])

\* _apply_commit(action, player), frontier being the list its call of
\* _get_playable_frontier() returns.
apply_commit_on(s, frontier, action, player) ==
    CommitOn(s, RoleKey(player), frontier,
             (action - ACTION_COMMIT_BASE) \div NUM_CARDS,
             (action - ACTION_COMMIT_BASE) % NUM_CARDS)

apply_commit(s, action, player) ==
    apply_commit_on(s, GetPlayableFrontier(s.built_hexes), action, player)

\* ------------------------------------------------------------------------
\* Scoring (game.py: _calculate_turn_scores, _apply_death_reveal_penalty,
\* _compute_mine_dodge_bonus)
\* ------------------------------------------------------------------------
RealityOf(s, hex) == IF hex \in DOMAIN s.reality THEN s.reality[hex] ELSE EmptyCard

\* ScoreMine with the penalty of the docstring, 2, for a lie about the mine.
RECURSIVE ScoreMineLight(_, _, _, _)
ScoreMineLight(scores, noms, i, scored_advisors) ==
    IF i > Len(noms) THEN scores
    ELSE IF noms[i].advisor \in scored_advisors
    THEN ScoreMineLight(scores, noms, i + 1, scored_advisors)
    ELSE ScoreMineLight(
            [scores EXCEPT ![noms[i].advisor] =
                IF noms[i].claim.suit = SPADES THEN @ + 1 ELSE @ - 2],
            noms, i + 1, scored_advisors \cup {noms[i].advisor})

\* The mine branch: the first nomination of each advisor among noms is scored.
RECURSIVE ScoreMine(_, _, _, _)
ScoreMine(scores, noms, i, scored_advisors) ==
    IF i > Len(noms) THEN scores
    ELSE IF noms[i].advisor \in scored_advisors
    THEN ScoreMine(scores, noms, i + 1, scored_advisors)
    ELSE ScoreMine(
            [scores EXCEPT ![noms[i].advisor] =
                IF noms[i].claim.suit = SPADES THEN @ + 1 ELSE @ - 3],
            noms, i + 1, scored_advisors \cup {noms[i].advisor})

DomainMatch(nom) ==
    \/ nom.claim.suit = HEARTS /\ nom.advisor = "urbanist"
    \/ nom.claim.suit \in {DIAMONDS, SPADES} /\ nom.advisor = "industry"

Abs(x) == IF x < 0 THEN -x ELSE x

\* Dominates without the comparison of the suits.
DominatesBySuitBlind(diff, suit_match, domain_match, best) ==
    IF ~best.set \/ diff < best.diff THEN TRUE
    ELSE IF diff = best.diff
    THEN domain_match /\ ~best.domain_match
    ELSE FALSE

\* The tie-break loop over noms[i..]: best = [set, diff, suit_match,
\* domain_match, nom]; set is FALSE while best_diff is still infinite.
Dominates(diff, suit_match, domain_match, best) ==
    IF ~best.set \/ diff < best.diff THEN TRUE
    ELSE IF diff = best.diff
    THEN IF suit_match /\ ~best.suit_match THEN TRUE
         ELSE IF suit_match = best.suit_match
         THEN domain_match /\ ~best.domain_match
         ELSE FALSE
    ELSE FALSE

\* Better with the later nomination taken on a full tie.
BetterOnTies(nom, diff, suit_match, domain_match, best) ==
    IF \/ Dominates(diff, suit_match, domain_match, best)
       \/ (diff = best.diff /\ suit_match = best.suit_match
              /\ domain_match = best.domain_match)
    THEN [set |-> TRUE, diff |-> diff, suit_match |-> suit_match,
          domain_match |-> domain_match, nom |-> nom]
    ELSE best

Better(nom, diff, suit_match, domain_match, best) ==
    IF Dominates(diff, suit_match, domain_match, best)
    THEN [set |-> TRUE, diff |-> diff, suit_match |-> suit_match,
          domain_match |-> domain_match, nom |-> nom]
    ELSE best

RECURSIVE TieBreak(_, _, _, _)
TieBreak(noms, i, placed_card, best) ==
    IF i > Len(noms) THEN best.nom
    ELSE TieBreak(noms, i + 1, placed_card,
                  Better(noms[i],
                         Abs(noms[i].claim.value - placed_card.value),
                         noms[i].claim.suit = placed_card.suit,
                         DomainMatch(noms[i]),
                         best))

WinningNomination(noms_for_hex, placed_card) ==
    IF Len(noms_for_hex) > 1
    THEN TieBreak(noms_for_hex, 1, placed_card,
                  [set |-> FALSE, diff |-> 0, suit_match |-> FALSE,
                   domain_match |-> FALSE, nom |-> noms_for_hex[1]])
    ELSE noms_for_hex[1]

\* used_domain_affinity_for_spades: the first two nominations of the hex
\* claim the same Spade card.
IdenticalSpades(noms_for_hex) ==
    /\ Len(noms_for_hex) > 1
    /\ noms_for_hex[1].claim.suit = SPADES
    /\ noms_for_hex[1].claim.suit = noms_for_hex[2].claim.suit
    /\ (IF noms_for_hex[1].claim = EmptyCard THEN -1 ELSE noms_for_hex[1].claim.value)
       = (IF noms_for_hex[2].claim = EmptyCard THEN -1 ELSE noms_for_hex[2].claim.value)

RECURSIVE PenalizeAll(_, _, _)
PenalizeAll(scores, noms, i) ==
    IF i > Len(noms) THEN scores
    ELSE PenalizeAll([scores EXCEPT ![noms[i].advisor] = @ - 2], noms, i + 1)

\* ScoreWinner without the penalty of a false Spade claim.
ScoreWinnerNoWolf(scores, winning_nom, placed_card, reality_suit) ==
    IF placed_card.suit = winning_nom.claim.suit
    THEN [scores EXCEPT ![winning_nom.advisor] = @ + 1]
    ELSE IF winning_nom.claim.suit = reality_suit
    THEN [scores EXCEPT ![winning_nom.advisor] = @ + 1]
    ELSE scores

\* The bluff-detection branches on the winning nomination.
ScoreWinner(scores, winning_nom, placed_card, reality_suit) ==
    IF placed_card.suit = winning_nom.claim.suit
    THEN [scores EXCEPT ![winning_nom.advisor] = @ + 1]
    ELSE IF winning_nom.claim.suit = reality_suit
    THEN [scores EXCEPT ![winning_nom.advisor] = @ + 1]
    ELSE IF winning_nom.claim.suit = SPADES
    THEN [scores EXCEPT ![winning_nom.advisor] = @ - 2]
    ELSE scores

\* ScoreSafe scoring the first nomination of the hex, without tie-break.
ScoreSafeFirst(scores, noms_for_hex, placed_card, reality_suit) ==
    IF IdenticalSpades(noms_for_hex) /\ reality_suit # SPADES
    THEN PenalizeAll(scores, noms_for_hex, 1)
    ELSE ScoreWinner(scores, noms_for_hex[1], placed_card, reality_suit)

\* The non-mine branch: advisor scoring of the winning nomination.
ScoreSafe(scores, noms_for_hex, placed_card, reality_suit) ==
    IF IdenticalSpades(noms_for_hex) /\ reality_suit # SPADES
    THEN PenalizeAll(scores, noms_for_hex, 1)
    ELSE ScoreWinner(scores, WinningNomination(noms_for_hex, placed_card),
                     placed_card, reality_suit)

\* ScoreMayor with a penalty for the Mayor on a mine.
ScoreMayorMinePenalty(scores, placed_card, reality_suit) ==
    IF reality_suit = SPADES THEN [scores EXCEPT !.mayor = @ - 2]
    ELSE IF placed_card.suit = reality_suit
    THEN [scores EXCEPT !.mayor = @ + 1]
    ELSE scores

\* ScoreMayor without the test of the mine.
ScoreMayorOnAnyMatch(scores, placed_card, reality_suit) ==
    IF placed_card.suit = reality_suit
    THEN [scores EXCEPT !.mayor = @ + 1]
    ELSE scores

\* MAYOR SCORING - simple suit match
ScoreMayor(scores, placed_card, reality_suit) ==
    IF reality_suit # SPADES /\ placed_card.suit = reality_suit
    THEN [scores EXCEPT !.mayor = @ + 1]
    ELSE scores

\* RelativeRewards with the others' deltas not halved.
RelativeRewardsUnhalved(new_scores, prev_scores) ==
    [mayor |-> 2 * (new_scores.mayor - prev_scores.mayor)
                - 2 * ((new_scores.industry - prev_scores.industry)
                       + (new_scores.urbanist - prev_scores.urbanist)),
     industry |-> 2 * (new_scores.industry - prev_scores.industry)
                - 2 * ((new_scores.mayor - prev_scores.mayor)
                       + (new_scores.urbanist - prev_scores.urbanist)),
     urbanist |-> 2 * (new_scores.urbanist - prev_scores.urbanist)
                - 2 * ((new_scores.mayor - prev_scores.mayor)
                       + (new_scores.industry - prev_scores.industry))]

\* 2 * (own_delta - others_delta / 2.0) for each role, new_scores and
\* prev_scores being the scores after and before the scoring.
RelativeRewards(new_scores, prev_scores) ==
    [mayor |-> 2 * (new_scores.mayor - prev_scores.mayor)
                - ((new_scores.industry - prev_scores.industry)
                   + (new_scores.urbanist - prev_scores.urbanist)),
     industry |-> 2 * (new_scores.industry - prev_scores.industry)
                - ((new_scores.mayor - prev_scores.mayor)
                   + (new_scores.urbanist - prev_scores.urbanist)),
     urbanist |-> 2 * (new_scores.urbanist - prev_scores.urbanist)
                - ((new_scores.mayor - prev_scores.mayor)
                   + (new_scores.industry - prev_scores.industry))]

\* The rewards of the turn out of the scores after the scoring.
TurnResult(s, new_scores, is_mine) ==
    [scores |-> new_scores,
     turn_rewards |-> [RelativeRewards(new_scores, s.scores) EXCEPT
                        !.mayor = IF is_mine THEN -20 ELSE @ + 20]]

ScoreNominations(s, placed_card, reality_suit, noms_for_hex) ==
    IF noms_for_hex = <<>>
    THEN [scores |-> s.scores, turn_rewards |-> s.turn_rewards]
    ELSE TurnResult(s,
            ScoreMayor(IF reality_suit = SPADES
                       THEN ScoreMine(s.scores, noms_for_hex, 1, {})
                       ELSE ScoreSafe(s.scores, noms_for_hex, placed_card,
                                      reality_suit),
                       placed_card, reality_suit),
            reality_suit = SPADES)

\* _calculate_turn_scores: [scores, turn_rewards] after it.
calculate_turn_scores(s, placed_card, chosen_hex) ==
    ScoreNominations(s, placed_card, RealityOf(s, chosen_hex).suit,
                     SelectSeq(s.nominations, LAMBDA n : n.hex = chosen_hex))

DeathPenalty(scores, advisor, claim_suit, reality_suit) ==
    IF reality_suit = SPADES /\ claim_suit # SPADES
    THEN [scores EXCEPT ![advisor] = @ - 3]
    ELSE IF reality_suit # SPADES /\ claim_suit = SPADES
    THEN [scores EXCEPT ![advisor] = @ - 2]
    ELSE scores

\* DeathReveal over the nominations of the built hex only.
RECURSIVE DeathRevealBuilt(_, _, _)
DeathRevealBuilt(s, scores, i) ==
    IF i > Len(s.nominations) THEN scores
    ELSE DeathRevealBuilt(s,
            IF s.nominations[i].hex = s.built_hexes[Len(s.built_hexes)]
            THEN DeathPenalty(scores, s.nominations[i].advisor,
                              s.nominations[i].claim.suit,
                              RealityOf(s, s.nominations[i].hex).suit)
            ELSE scores,
            i + 1)

RECURSIVE DeathReveal(_, _, _)
DeathReveal(s, scores, i) ==
    IF i > Len(s.nominations) THEN scores
    ELSE DeathReveal(s,
            DeathPenalty(scores, s.nominations[i].advisor,
                         s.nominations[i].claim.suit,
                         RealityOf(s, s.nominations[i].hex).suit),
            i + 1)

apply_death_reveal_penalty(s) == [s EXCEPT !.scores = DeathReveal(s, s.scores, 1)]

\* 2 * _compute_mine_dodge_bonus
DodgeBonus(s, chosen_hex, nom) ==
    IF nom.hex = chosen_hex \/ RealityOf(s, nom.hex).suit # SPADES THEN 0
    ELSE IF nom.claim.suit # SPADES THEN 20 ELSE 4

RECURSIVE MineDodge(_, _, _)
MineDodge(s, chosen_hex, i) ==
    IF i > Len(s.nominations) THEN 0
    ELSE DodgeBonus(s, chosen_hex, s.nominations[i]) + MineDodge(s, chosen_hex, i + 1)

compute_mine_dodge_bonus(s, chosen_hex) == MineDodge(s, chosen_hex, 1)

\* ------------------------------------------------------------------------
\* apply_action: place (VERIFY or BUILD), and the dispatch of _apply_action
\* ------------------------------------------------------------------------
\* The reset both branches of _apply_place end a turn with.
StartNextTurn(s) ==
    [s EXCEPT !.turn = @ + 1,
              !.phase = "DRAW",
              !.hand = <<>>,
              !.revealed_indices = <<>>,
              !.pending_draws = HAND_DRAWS,
              !.control_mode = "NONE",
              !.forced_suit_config = "None",
              !.forced_hexes = EmptyDict,
              !.sub_phase = "drawing",
              !.nominations = <<>>]

\* Verified without the hex added to the verified set.
VerifiedUnrecorded(s, nom_idx) ==
    IF nom_idx < Len(s.nominations)
    THEN [s EXCEPT !.turn_rewards.mayor =
                       IF RealityOf(s, s.nominations[nom_idx + 1].hex).suit = SPADES
                       THEN @ + 20 ELSE @ + 4]
    ELSE s

\* Verified with a point for the Mayor.
VerifiedScored(s, nom_idx) ==
    IF nom_idx < Len(s.nominations)
    THEN [s EXCEPT !.mayor_verified_hexes = @ \cup {s.nominations[nom_idx + 1].hex},
                   !.scores.mayor = @ + 1,
                   !.turn_rewards.mayor =
                       IF RealityOf(s, s.nominations[nom_idx + 1].hex).suit = SPADES
                       THEN @ + 20 ELSE @ + 4]
    ELSE s

Verified(s, nom_idx) ==
    IF nom_idx < Len(s.nominations)
    THEN [s EXCEPT !.mayor_verified_hexes = @ \cup {s.nominations[nom_idx + 1].hex},
                   !.turn_rewards.mayor =
                       IF RealityOf(s, s.nominations[nom_idx + 1].hex).suit = SPADES
                       THEN @ + 20 ELSE @ + 4]
    ELSE s

\* apply_verify without the reset of the control decision.
apply_verify_keeping_control(s, action) ==
    [StartNextTurn(Verified(s, action - ACTION_CONTROL_REVEAL_BASE)) EXCEPT
        !.control_mode = s.control_mode,
        !.forced_suit_config = s.forced_suit_config,
        !.forced_hexes = s.forced_hexes]

apply_verify(s, action) ==
    StartNextTurn(Verified(s, action - ACTION_CONTROL_REVEAL_BASE))

\* Built with the reality of the built hex taken off the map.
BuiltOffMap(s, chosen_hex, m) ==
    [s EXCEPT !.built_hexes = Append(@, chosen_hex),
              !.reality = [h \in DOMAIN m.reality \ {chosen_hex} |-> m.reality[h]],
              !.deck = m.deck,
              !.discard = m.discard]

\* chosen_hex is built and its neighbours revealed: m = [reality, deck,
\* discard] after _reveal_around.
Built(s, chosen_hex, m) ==
    [s EXCEPT !.built_hexes = Append(@, chosen_hex),
              !.reality = m.reality,
              !.deck = m.deck,
              !.discard = m.discard]

\* The scores sc of the turn are stored and the turn is recorded;
\* prev_scores are the scores before the scoring.
Scored(built, prev_scores, chosen_hex, placed_card, sc) ==
    [built EXCEPT
        !.scores = sc.scores,
        !.turn_rewards = sc.turn_rewards,
        !.turn_history = Append(@,
            [turn |-> built.turn,
             build |-> [hex |-> chosen_hex, card |-> placed_card],
             reality |-> RealityOf(built, chosen_hex),
             scores_delta |->
                [k \in {"mayor", "industry", "urbanist"} |->
                    sc.scores[k] - prev_scores[k]]])]

\* Building on a mine.
HitMine(scored) ==
    apply_death_reveal_penalty(
        [scored EXCEPT !.mayor_hit_mine = TRUE, !.is_terminal = TRUE])

\* Dodged with the counters stepped by the suit of the card in place of
\* the suit of the reality: the first card of the hand.
DodgedByCard(scored, chosen_hex, reality_suit) ==
    [scored EXCEPT
        !.turn_rewards.mayor = @ + compute_mine_dodge_bonus(scored, chosen_hex),
        !.facilities.hearts = IF scored.hand[1].suit = HEARTS THEN @ + 1 ELSE @,
        !.facilities.diamonds = IF scored.hand[1].suit = DIAMONDS THEN @ + 1 ELSE @]

\* A safe build: the mine-dodge bonus and the facility counters.
Dodged(scored, chosen_hex, reality_suit) ==
    [scored EXCEPT
        !.turn_rewards.mayor = @ + compute_mine_dodge_bonus(scored, chosen_hex),
        !.facilities.hearts = IF reality_suit = HEARTS THEN @ + 1 ELSE @,
        !.facilities.diamonds = IF reality_suit = DIAMONDS THEN @ + 1 ELSE @]

\* Completed with the next turn started under the number of this one.
CompletedSameTurn(dodged, placed_card) ==
    IF dodged.facilities.hearts >= FACILITIES_TO_COMPLETE
       /\ dodged.facilities.diamonds >= FACILITIES_TO_COMPLETE
    THEN [dodged EXCEPT !.city_complete = TRUE, !.is_terminal = TRUE]
    ELSE [StartNextTurn([dodged EXCEPT !.discard = Append(@, placed_card)])
            EXCEPT !.turn = dodged.turn]

\* Completed with > in place of >=.
CompletedStrict(dodged, placed_card) ==
    IF dodged.facilities.hearts > FACILITIES_TO_COMPLETE
       /\ dodged.facilities.diamonds > FACILITIES_TO_COMPLETE
    THEN [dodged EXCEPT !.city_complete = TRUE, !.is_terminal = TRUE]
    ELSE StartNextTurn([dodged EXCEPT !.discard = Append(@, placed_card)])

\* Completed with a turn limit: the game is over as well after as many
\* BUILDs as the facilities of a complete city.
CompletedInTime(dodged, placed_card) ==
    IF dodged.facilities.hearts >= FACILITIES_TO_COMPLETE
       /\ dodged.facilities.diamonds >= FACILITIES_TO_COMPLETE
    THEN [dodged EXCEPT !.city_complete = TRUE, !.is_terminal = TRUE]
    ELSE IF dodged.turn + 1 >= FACILITIES_TO_COMPLETE + FACILITIES_TO_COMPLETE
    THEN [dodged EXCEPT !.is_terminal = TRUE]
    ELSE StartNextTurn([dodged EXCEPT !.discard = Append(@, placed_card)])

\* The city is complete, or the card is discarded and the next turn starts.
Completed(dodged, placed_card) ==
    IF dodged.facilities.hearts >= FACILITIES_TO_COMPLETE
       /\ dodged.facilities.diamonds >= FACILITIES_TO_COMPLETE
    THEN [dodged EXCEPT !.city_complete = TRUE, !.is_terminal = TRUE]
    ELSE StartNextTurn([dodged EXCEPT !.discard = Append(@, placed_card)])

Outcome(scored, chosen_hex, placed_card, reality_suit) ==
    IF reality_suit = SPADES THEN HitMine(scored)
    ELSE Completed(Dodged(scored, chosen_hex, reality_suit), placed_card)

ScoreBuilt(built, prev_scores, chosen_hex, placed_card) ==
    Outcome(Scored(built, prev_scores, chosen_hex, placed_card,
                   calculate_turn_scores(built, placed_card, chosen_hex)),
            chosen_hex, placed_card, RealityOf(built, chosen_hex).suit)

BuildOn(s, chosen_hex, placed_card, sh) ==
    ScoreBuilt(Built(s, chosen_hex,
                     RevealAround([reality |-> s.reality, deck |-> s.deck,
                                   discard |-> s.discard], chosen_hex, sh)),
               s.scores, chosen_hex, placed_card)

\* PlaceOn with the bound on nom_idx one too low.
PlaceOnShort(s, card_idx, nom_idx, sh) ==
    IF card_idx >= Len(s.hand) \/ nom_idx >= Len(s.nominations) - 1 THEN s
    ELSE BuildOn(s, s.nominations[nom_idx + 1].hex,
                 s.hand[IF card_idx < 0 THEN Len(s.hand) + card_idx + 1
                        ELSE card_idx + 1], sh)

\* The BUILD branch of _apply_place.  nom_idx is a remainder and never
\* negative; hand[card_idx] is the indexing of a Python list: a negative
\* card_idx passes the guard and counts from the end of the hand, and has no
\* value below -len(hand) (IndexError, before any assignment).
PlaceOn(s, card_idx, nom_idx, sh) ==
    IF card_idx >= Len(s.hand) \/ nom_idx >= Len(s.nominations) THEN s
    ELSE BuildOn(s, s.nominations[nom_idx + 1].hex,
                 s.hand[IF card_idx < 0 THEN Len(s.hand) + card_idx + 1
                        ELSE card_idx + 1], sh)

apply_build(s, action, sh) ==
    PlaceOn(s, (action - ACTION_BUILD_BASE) \div MAX_NOMINATIONS,
            (action - ACTION_BUILD_BASE) % MAX_NOMINATIONS, sh)

apply_place(s, action, sh) ==
    IF ACTION_CONTROL_REVEAL_BASE <= action /\ action < ACTION_COMMIT_BASE
    THEN apply_verify(s, action)
    ELSE apply_build(s, action, sh)

\* _apply_action(action); sh is the outcome of a reshuffle it may perform.
\* frontier is the list _get_playable_frontier() returns in s, which
\* _apply_commit reads.
apply_action_on(s, frontier, action, sh) ==
    IF current_player(s) = CHANCE_PLAYER THEN apply_chance(s, action)
    ELSE IF s.phase = "DRAW" THEN apply_reveal(s, action)
    ELSE IF s.phase = "CONTROL" THEN apply_control(s, action)
    ELSE IF s.phase = "NOMINATE"
    THEN apply_commit_on(s, frontier, action, current_player(s))
    ELSE IF s.phase = "PLACE" THEN apply_place(s, action, sh)
    ELSE s

apply_action(s, action, sh) ==
    apply_action_on(s, GetPlayableFrontier(s.built_hexes), action, sh)

\* ------------------------------------------------------------------------
\* State
\* ------------------------------------------------------------------------
VARIABLES phase, turn, is_terminal, scores, turn_rewards, hand,
          revealed_indices, deck, discard, built_hexes, reality,
          advisor_commits, nominations, advisor_trays, mayor_verified_hexes,
          pending_draws, sub_phase, control_mode, forced_suit_config,
          forced_hexes, turn_history, facilities, city_complete,
          mayor_hit_mine, max_frontier,
          codec, idx_to_hex

\* The fields of the game.
game_vars == <<phase, turn, is_terminal, scores, turn_rewards, hand,
               revealed_indices, deck, discard, built_hexes, reality,
               advisor_commits, nominations, advisor_trays,
               mayor_verified_hexes, pending_draws, sub_phase, control_mode,
               forced_suit_config, forced_hexes, turn_history, facilities,
               city_complete, mayor_hit_mine, max_frontier>>

\* max_frontier is the parameter of the state's game (self._game.max_frontier,
\* also the size of its encoder), which no action changes.  codec is the move
\* under conversion of the run of the action codec; the runs of the game leave
\* it idle.  idx_to_hex is the list _idx_to_hex of the state's encoder, the
\* hexes that were given an index, in the order of their indices.
vars == <<game_vars, codec, idx_to_hex>>

\* The current state as a record.
State ==
    [phase |-> phase, turn |-> turn, is_terminal |-> is_terminal,
     scores |-> scores, turn_rewards |-> turn_rewards, hand |-> hand,
     revealed_indices |-> revealed_indices, deck |-> deck,
     discard |-> discard, built_hexes |-> built_hexes, reality |-> reality,
     advisor_commits |-> advisor_commits, nominations |-> nominations,
     advisor_trays |-> advisor_trays,
     mayor_verified_hexes |-> mayor_verified_hexes,
     pending_draws |-> pending_draws, sub_phase |-> sub_phase,
     control_mode |-> control_mode, forced_suit_config |-> forced_suit_config,
     forced_hexes |-> forced_hexes, turn_history |-> turn_history,
     facilities |-> facilities, city_complete |-> city_complete,
     mayor_hit_mine |-> mayor_hit_mine, max_frontier |-> max_frontier]

\* The variables hold the record n.
Holds(n) ==
    /\ phase = n.phase /\ turn = n.turn /\ is_terminal = n.is_terminal
    /\ scores = n.scores /\ turn_rewards = n.turn_rewards /\ hand = n.hand
    /\ revealed_indices = n.revealed_indices /\ deck = n.deck
    /\ discard = n.discard /\ built_hexes = n.built_hexes
    /\ reality = n.reality /\ advisor_commits = n.advisor_commits
    /\ nominations = n.nominations /\ advisor_trays = n.advisor_trays
    /\ mayor_verified_hexes = n.mayor_verified_hexes
    /\ pending_draws = n.pending_draws /\ sub_phase = n.sub_phase
    /\ control_mode = n.control_mode
    /\ forced_suit_config = n.forced_suit_config
    /\ forced_hexes = n.forced_hexes /\ turn_history = n.turn_history
    /\ facilities = n.facilities /\ city_complete = n.city_complete
    /\ mayor_hit_mine = n.mayor_hit_mine /\ max_frontier = n.max_frontier

\* The fields of the game become the record n; the encoder's table is set by
\* the action.
Becomes(n) ==
    /\ phase' = n.phase /\ turn' = n.turn /\ is_terminal' = n.is_terminal
    /\ scores' = n.scores /\ turn_rewards' = n.turn_rewards /\ hand' = n.hand
    /\ revealed_indices' = n.revealed_indices /\ deck' = n.deck
    /\ discard' = n.discard /\ built_hexes' = n.built_hexes
    /\ reality' = n.reality /\ advisor_commits' = n.advisor_commits
    /\ nominations' = n.nominations /\ advisor_trays' = n.advisor_trays
    /\ mayor_verified_hexes' = n.mayor_verified_hexes
    /\ pending_draws' = n.pending_draws /\ sub_phase' = n.sub_phase
    /\ control_mode' = n.control_mode
    /\ forced_suit_config' = n.forced_suit_config
    /\ forced_hexes' = n.forced_hexes /\ turn_history' = n.turn_history
    /\ facilities' = n.facilities /\ city_complete' = n.city_complete
    /\ mayor_hit_mine' = n.mayor_hit_mine /\ max_frontier' = n.max_frontier
    /\ codec' = codec

\* CollapsizationState.__init__ with the deck shuffled to deck_order.
InitialState(deck_order) ==
    LET m == RevealAround([reality |-> TownCenter :> make_card(HEARTS, "A"),
                           deck |-> deck_order, discard |-> <<>>],
                          TownCenter, "keep")
    IN  [phase |-> "DRAW", turn |-> 0, is_terminal |-> FALSE,
         scores |-> [mayor |-> 0, industry |-> 0, urbanist |-> 0],
         turn_rewards |-> [mayor |-> 0, industry |-> 0, urbanist |-> 0],
         hand |-> <<>>, revealed_indices |-> <<>>,
         deck |-> m.deck, discard |-> m.discard,
         built_hexes |-> <<TownCenter>>, reality |-> m.reality,
         advisor_commits |-> [industry |-> <<>>, urbanist |-> <<>>],
         nominations |-> <<>>,
         advisor_trays |-> [industry |-> AllClaims, urbanist |-> AllClaims],
         mayor_verified_hexes |-> {},
         pending_draws |-> HAND_DRAWS, sub_phase |-> "ready",
         control_mode |-> "NONE", forced_suit_config |-> "None",
         forced_hexes |-> EmptyDict, turn_history |-> <<>>,
         facilities |-> [hearts |-> 1, diamonds |-> 0],
         city_complete |-> FALSE, mayor_hit_mine |-> FALSE,
         max_frontier |-> MaxFrontier]

\* The two calls of one move of a player or of chance, the second following
\* the first: legal_actions(), then apply_action(action) with one of the
\* actions it returned.
Move(s, action, sh) == apply_action(AfterLegalActions(s), action, sh)

\* The state after the moves actions[lo..hi] from s, each made before the
\* next one is looked at.
RECURSIVE Play(_, _, _, _)
Play(s, actions, lo, hi) ==
    IF lo > hi \/ s.turn < 0 THEN s
    ELSE Play(Move(s, actions[lo], "keep"), actions, lo + 1, hi)

\* ------------------------------------------------------------------------
\* Runs explored
\* ------------------------------------------------------------------------
\* A game of 25 turns from the deck order 2H, 3H, ... AS, twelve moves a turn:
\* four draws, two reveals, FORCE_SUITS A (FORCE_HEXES on the first frontier
\* hex for both advisors in turns 6 to 17), four commits, and a BUILD on the
\* first frontier hex (a VERIFY of the second in turns 3, 8 and 13).  It
\* builds thirteen more Hearts hexes, then nine Diamonds hexes.
LongGameScript ==
       <<4525, 4538, 4551, 4542, 0, 1, 4, 2556, 2596, 2556, 2608, 4506>>
    \o <<4525, 4538, 4551, 4542, 0, 1, 4, 2559, 2599, 2557, 2609, 4510>>
    \o <<4525, 4538, 4551, 4542, 0, 1, 4, 2561, 2601, 2559, 2610, 4514>>
    \o <<4525, 4538, 4551, 4542, 0, 1, 4, 2563, 2603, 2560, 2611, 2507>>
    \o <<4525, 4538, 4551, 4542, 0, 1, 4, 2565, 2605, 2561, 2613, 4506>>
    \o <<4525, 4538, 4551, 4542, 0, 1, 4, 2567, 2607, 2562, 2614, 4510>>
    \o <<4525, 4538, 4551, 4542, 0, 1, 6, 2569, 2612, 2563, 2615, 4514>>
    \o <<4525, 4538, 4551, 4542, 0, 1, 6, 2570, 2610, 2564, 2616, 4518>>
    \o <<4525, 4538, 4551, 4542, 0, 1, 6, 2572, 2613, 2565, 2617, 2507>>
    \o <<4525, 4538, 4551, 4542, 0, 1, 6, 2575, 2615, 2566, 2618, 4510>>
    \o <<4525, 4538, 4551, 4542, 0, 1, 6, 2577, 2617, 2567, 2619, 4514>>
    \o <<4525, 4538, 4551, 4542, 0, 1, 6, 2579, 2619, 2568, 2620, 4518>>
    \o <<4525, 4538, 4551, 4542, 0, 1, 6, 2581, 2621, 2582, 2612, 4506>>
    \o <<4525, 4538, 4551, 4542, 0, 1, 6, 2583, 2623, 2583, 2623, 2507>>
    \o <<4525, 4538, 4551, 4542, 0, 1, 6, 2585, 2626, 2585, 2626, 4514>>
    \o <<4525, 4538, 4551, 4542, 0, 1, 6, 2588, 2628, 2588, 2628, 4518>>
    \o <<4525, 4538, 4551, 4542, 0, 1, 6, 2590, 2630, 2590, 2630, 4506>>
    \o <<4525, 4538, 4551, 4542, 0, 1, 6, 2592, 2632, 2592, 2632, 4510>>
    \o <<4525, 4538, 4551, 4542, 0, 1, 4, 2594, 2597, 2594, 2597, 4514>>
    \o <<4525, 4538, 4551, 4542, 0, 1, 4, 2586, 2595, 2586, 2608, 4518>>
    \o <<4525, 4538, 4551, 4542, 0, 1, 4, 2557, 2598, 2556, 2609, 4506>>
    \o <<4525, 4538, 4551, 4542, 0, 1, 4, 2560, 2600, 2557, 2610, 4510>>
    \o <<4525, 4538, 4551, 4542, 0, 1, 4, 2562, 2602, 2559, 2611, 4514>>
    \o <<4525, 4538, 4551, 4542, 0, 1, 4, 2564, 2604, 2560, 2613, 4518>>
    \o <<4525, 4538, 4551, 4542, 0, 1, 4, 2566, 2606, 2561, 2614, 4506>>

\* The long game after 4, 8, 12, 16, 18, 19, 22 and 25 turns.
LongGame4 == Play(InitialState(DeckOrder(0, 1)), LongGameScript, 1, 48)
LongGame8 == Play(LongGame4, LongGameScript, 49, 96)
LongGame12 == Play(LongGame8, LongGameScript, 97, 144)
LongGame16 == Play(LongGame12, LongGameScript, 145, 192)
LongGame18 == Play(LongGame16, LongGameScript, 193, 216)
LongGame19 == Play(LongGame18, LongGameScript, 217, 228)
LongGame22 == Play(LongGame19, LongGameScript, 229, 264)
LongGame25 == Play(LongGame22, LongGameScript, 265, 300)

\* Start states: a new game whose first frontier hex is a mine and whose
\* second is a Hearts hex; the long game after a VERIFY turn (turn 4), with
\* the 4 of Hearts and two Spades left in each advisor's tray (turn 18), with
\* one card left in each tray (turn 19), with the deck used up (turn 22), and
\* one Diamonds hex short of a complete city (turn 25).
StartStates ==
    {InitialState(DeckOrder(26, 14)), LongGame4, LongGame18, LongGame19,
     LongGame22, LongGame25}

\* The turns the start states are at.
StartTurns == {0, 4, 18, 19, 22, 25}

\* The cards chance deals, by position in the hand: 5H, 5D, 5S, 9D.
HandScript == <<3, 16, 29, 20>>
\* The hand slots the Mayor reveals.
RevealInputs == {0, 1}
\* The cards advisors claim: 4H, 6S.
ClaimInputs == {2, 30}

ChanceInputs(s) ==
    IF Len(s.hand) < Len(HandScript)
    THEN {ACTION_CHANCE_BASE + HandScript[Len(s.hand) + 1]}
    ELSE {}

\* The frontier positions the Mayor forces and the advisors nominate.
HexInputs == {0, 1}

ControlInputs ==
    {ACTION_CONTROL_SUIT_A, ACTION_CONTROL_SUIT_B}
    \cup {ACTION_CONTROL_HEX_BASE + urb_idx * MAX_FRONTIER_SIZE + ind_idx :
            urb_idx \in HexInputs, ind_idx \in HexInputs}

CommitInputs ==
    {ACTION_COMMIT_BASE + hex_idx * NUM_CARDS + claim_idx :
        hex_idx \in HexInputs, claim_idx \in ClaimInputs}

VerifyInputs ==
    ACTION_CONTROL_REVEAL_BASE..(ACTION_CONTROL_REVEAL_BASE + MAX_NOMINATIONS - 1)

\* A BUILD reveals at most six hexes: it reshuffles only a deck shorter than
\* that.
ReshuffleInputs(s) ==
    IF Len(s.deck) < Len(HEX_DIRECTIONS) THEN ShuffleInputs ELSE {"keep"}

BuildInputs == ACTION_BUILD_BASE..(ACTION_BUILD_BASE + ACTION_BUILD_COUNT - 1)

\* The run is within the turns explored from its start: MaxTurns turns, and
\* one turn from the start at turn 19, with one card left in each tray: each of
\* the four commits of the turn is made with the tray refilled by a call of
\* legal_actions() or without it.
InBudget ==
    \E t0 \in StartTurns :
        t0 <= turn /\ turn < t0 + (IF t0 = 19 THEN 1 ELSE MaxTurns)

\* No move under conversion.
CodecIdle ==
    [kind |-> "none", stage |-> "idle", move |-> <<0, 0>>, id |-> 0,
     card |-> EmptyCard, decoded |-> <<0, 0>>]

\* The table the first turn of the long game leaves behind, no observation
\* having been asked for: it is full by then, and no lookup changes a full table.
LongGameTable ==
    LegalActionsRegistered(
        Play(InitialState(DeckOrder(0, 1)), LongGameScript, 1, 8),
        LegalActionsRegistered(
            Play(InitialState(DeckOrder(0, 1)), LongGameScript, 1, 7), <<>>))

\* A game starts with an empty table, the long game with the table it left.
Init ==
    /\ \E s0 \in StartStates :
            /\ Holds(s0)
            /\ idx_to_hex = IF s0.turn = 0 THEN <<>> ELSE LongGameTable
    /\ codec = CodecIdle

Chance ==
    /\ InBudget
    /\ current_player(State) = CHANCE_PLAYER
    /\ \E a \in ChanceInputs(State) \cap legal_actions(State) :
            Becomes(apply_action(State, a, "keep"))
    /\ UNCHANGED idx_to_hex

Reveal ==
    /\ InBudget
    /\ current_player(State) = MAYOR /\ phase = "DRAW"
    /\ \E a \in {ACTION_REVEAL_BASE + i : i \in RevealInputs} \cap legal_actions(State) :
            Becomes(apply_action(State, a, "keep"))
    /\ UNCHANGED idx_to_hex

Control ==
    /\ InBudget
    /\ current_player(State) = MAYOR /\ phase = "CONTROL"
    /\ \E a \in ControlInputs \cap legal_actions(State) :
            Becomes(apply_action(State, a, "keep"))
    /\ UNCHANGED idx_to_hex

Commit ==
    /\ InBudget
    /\ current_player(State) \in {INDUSTRY, URBANIST} /\ phase = "NOMINATE"
    /\ \E a \in CommitInputs \cap legal_actions(State) :
            Becomes(apply_action(State, a, "keep"))
    /\ UNCHANGED idx_to_hex

Verify ==
    /\ InBudget
    /\ current_player(State) = MAYOR /\ phase = "PLACE"
    /\ \E a \in VerifyInputs \cap legal_actions(State) :
            Becomes(apply_action(State, a, "keep"))
    /\ UNCHANGED idx_to_hex

Build ==
    /\ InBudget
    /\ current_player(State) = MAYOR /\ phase = "PLACE"
    /\ \E a \in BuildInputs \cap legal_actions(State), sh \in ReshuffleInputs(State) :
            Becomes(apply_action(State, a, sh))
    /\ UNCHANGED idx_to_hex

\* legal_actions() called and returned to the caller: in NOMINATE it refills
\* an empty tray and registers the hexes it offers in the encoder's table, in
\* PLACE it repairs an empty list of nominations.
LegalActions ==
    /\ Becomes(AfterLegalActions(State))
    /\ idx_to_hex' = LegalActionsRegistered(State, idx_to_hex)

Next == LegalActions \/ Chance \/ Reveal \/ Control \/ Commit \/ Verify \/ Build

Spec == Init /\ [][Next]_vars

\* ------------------------------------------------------------------------
\* Observations asked for during the game
\* ------------------------------------------------------------------------
Players == {MAYOR, INDUSTRY, URBANIST}

\* observation_tensor(player): the vector goes to the caller, the hexes it
\* looked up stay in the table.
Observe ==
    /\ \E player \in Players :
            idx_to_hex' = TableAfterObservation(State, idx_to_hex, player)
    /\ UNCHANGED <<game_vars, codec>>

NextObserve ==
    LegalActions \/ Chance \/ Reveal \/ Control \/ Commit \/ Verify \/ Build
    \/ Observe

SpecObserve == Init /\ [][NextObserve]_vars

\* ------------------------------------------------------------------------
\* The encoder reset during the game (observation.py: ObservationEncoder.reset)
\* ------------------------------------------------------------------------
\* reset() called on the state's encoder, at any point of the game: both of
\* its tables are emptied (_hex_to_idx is read off _idx_to_hex), the game is
\* left as it is.  The hexes looked up after it are indexed from 0 again.
reset ==
    /\ idx_to_hex' = <<>>
    /\ UNCHANGED <<game_vars, codec>>

NextReset ==
    LegalActions \/ Chance \/ Reveal \/ Control \/ Commit \/ Verify \/ Build
    \/ Observe \/ reset

SpecReset == Init /\ [][NextReset]_vars

\* ------------------------------------------------------------------------
\* Calls after the end of the game
\* ------------------------------------------------------------------------
\* The game has ended by play and nothing was applied since: the phase is
\* still PLACE and the last BUILD recorded is the only one of this turn.
EndedByPlay ==
    /\ is_terminal /\ phase = "PLACE" /\ turn_history # <<>>
    /\ turn_history[Len(turn_history)].turn = turn
    /\ IF Len(turn_history) = 1 THEN TRUE
       ELSE turn_history[Len(turn_history) - 1].turn < turn

\* The IDs a caller replays after the end: the VERIFY IDs, the BUILD IDs and
\* a chance ID, and the ID before the first BUILD ID, which _apply_place
\* takes for a BUILD of the last card of the hand (card index -1) on the
\* last nomination.
StaleInputs ==
    VerifyInputs \cup BuildInputs \cup {ACTION_CHANCE_BASE, ACTION_BUILD_BASE - 1}

\* apply_action on the ended game: _apply_action has no test of _is_terminal.
Stale ==
    /\ EndedByPlay
    /\ \E a \in StaleInputs, sh \in ReshuffleInputs(State) :
            Becomes(apply_action(State, a, sh))
    /\ UNCHANGED idx_to_hex

NextApply ==
    LegalActions \/ Chance \/ Reveal \/ Control \/ Commit \/ Verify \/ Build
    \/ Stale

SpecApply == Init /\ [][NextApply]_vars

\* ------------------------------------------------------------------------
\* The action codec (game.py: the IDs legal_actions builds, the indices
\* _apply_* read back)
\* ------------------------------------------------------------------------
\* _draw_legal_actions: the ID of revealing hand slot i.
EncodeReveal(i) == ACTION_REVEAL_BASE + i

\* _control_legal_actions: the ID of FORCE_HEXES(urb_idx, ind_idx).
EncodeControlHexes(urb_idx, ind_idx) ==
    ACTION_CONTROL_HEX_BASE + urb_idx * MAX_FRONTIER_SIZE + ind_idx

\* _nominate_legal_actions: the ID of claiming claim_idx on hex_idx.
EncodeCommit(hex_idx, claim_idx) ==
    ACTION_COMMIT_BASE + hex_idx * NUM_CARDS + claim_idx

\* _place_legal_actions: the ID of building hand card card_idx on
\* nomination nom_idx.
EncodeBuild(card_idx, nom_idx) ==
    ACTION_BUILD_BASE + card_idx * MAX_NOMINATIONS + nom_idx

\* _chance_legal_actions: the ID of drawing the card of index card_idx.
EncodeChance(card_idx) == ACTION_CHANCE_BASE + card_idx

\* _apply_reveal: reveal_idx.
DecodeReveal(action) == action - ACTION_REVEAL_BASE

\* DecodeControlHexes with the stride of the claims.
DecodeControlHexesByCards(action) ==
    <<(action - ACTION_CONTROL_HEX_BASE) \div NUM_CARDS,
      (action - ACTION_CONTROL_HEX_BASE) % NUM_CARDS>>

\* _apply_control: urb_hex_idx and ind_hex_idx.
DecodeControlHexes(action) ==
    <<(action - ACTION_CONTROL_HEX_BASE) \div MAX_FRONTIER_SIZE,
      (action - ACTION_CONTROL_HEX_BASE) % MAX_FRONTIER_SIZE>>

\* _apply_commit: hex_idx and claim_idx.
DecodeCommit(action) ==
    <<(action - ACTION_COMMIT_BASE) \div NUM_CARDS,
      (action - ACTION_COMMIT_BASE) % NUM_CARDS>>

\* _apply_place: card_idx and nom_idx.
DecodeBuild(action) ==
    <<(action - ACTION_BUILD_BASE) \div MAX_NOMINATIONS,
      (action - ACTION_BUILD_BASE) % MAX_NOMINATIONS>>

\* _apply_chance: card_idx.
DecodeChance(action) == action - ACTION_CHANCE_BASE

\* The representable moves: kind and indices, 0 standing for no second index.
CodecMoves ==
    ({"reveal"} \X {<<i, 0>> : i \in 0..(ACTION_REVEAL_COUNT - 1)})
    \cup ({"control"} \X ((0..(MAX_FRONTIER_SIZE - 1)) \X (0..(MAX_FRONTIER_SIZE - 1))))
    \cup ({"commit"} \X ((0..(MAX_FRONTIER_SIZE - 1)) \X (0..(NUM_CARDS - 1))))
    \cup ({"build"} \X ((0..(HAND_DRAWS - 1)) \X (0..(MAX_NOMINATIONS - 1))))
    \cup ({"chance"} \X {<<i, 0>> : i \in 0..(NUM_CARDS - 1)})
    \cup ({"card"} \X {<<i, 0>> : i \in 0..(NUM_CARDS - 1)})

InitCodec ==
    /\ Holds(InitialState(DeckOrder(0, 1)))
    /\ idx_to_hex = <<>>
    /\ \E m \in CodecMoves :
            codec = [CodecIdle EXCEPT !.kind = m[1], !.stage = "move", !.move = m[2]]

\* The move becomes an action ID, the card index a card.
Encode ==
    /\ codec.stage = "move"
    /\ codec' =
         [codec EXCEPT
            !.stage = "encoded",
            !.id = CASE codec.kind = "reveal" -> EncodeReveal(codec.move[1])
                     [] codec.kind = "control" ->
                            EncodeControlHexes(codec.move[1], codec.move[2])
                     [] codec.kind = "commit" ->
                            EncodeCommit(codec.move[1], codec.move[2])
                     [] codec.kind = "build" ->
                            EncodeBuild(codec.move[1], codec.move[2])
                     [] codec.kind = "chance" -> EncodeChance(codec.move[1])
                     [] OTHER -> @,
            !.card = IF codec.kind = "card" THEN index_to_card(codec.move[1]) ELSE @]
    /\ UNCHANGED <<game_vars, idx_to_hex>>

\* The action ID is read back as indices, the card as its index.
Decode ==
    /\ codec.stage = "encoded"
    /\ codec' =
         [codec EXCEPT
            !.stage = "decoded",
            !.decoded =
                CASE codec.kind = "reveal" -> <<DecodeReveal(codec.id), 0>>
                  [] codec.kind = "control" -> DecodeControlHexes(codec.id)
                  [] codec.kind = "commit" -> DecodeCommit(codec.id)
                  [] codec.kind = "build" -> DecodeBuild(codec.id)
                  [] codec.kind = "chance" -> <<DecodeChance(codec.id), 0>>
                  [] OTHER -> <<card_to_index(codec.card), 0>>]
    /\ UNCHANGED <<game_vars, idx_to_hex>>

NextCodec == Encode \/ Decode

SpecCodec == InitCodec /\ [][NextCodec]_vars

\* ------------------------------------------------------------------------
\* Properties
\* ------------------------------------------------------------------------
\* The phase of the state machine, GameOver being the ended game.
PhaseOf(s) == IF s.is_terminal THEN "GAME_OVER" ELSE s.phase

PhaseCycle ==
    {<<"DRAW", "CONTROL">>, <<"CONTROL", "NOMINATE">>, <<"NOMINATE", "PLACE">>,
     <<"PLACE", "DRAW">>, <<"PLACE", "GAME_OVER">>}

\* C1: in a run of legal actions the phase changes only along Draw -> Control
\* -> Nominate -> Place -> Draw, the last one starting the next turn, or from
\* Place to the end of the game.
C1_PhaseOrder ==
    [][/\ PhaseOf(State') # PhaseOf(State)
            => <<PhaseOf(State), PhaseOf(State')>> \in PhaseCycle
       /\ phase' # phase => <<phase, phase'>> \in PhaseCycle
       /\ (phase = "PLACE" /\ phase' = "DRAW") => turn' = turn + 1]_vars

\* A first turn has gone round the cycle: its BUILD is recorded and the next
\* turn is at its draws.
C1_Witness == phase = "DRAW" /\ ~is_terminal /\ Len(turn_history) = 1 /\ turn = 1

\* C2: current_player is Terminal once the game has ended; otherwise Chance
\* while draws are pending; otherwise the Mayor in Draw, Control and Place;
\* otherwise, in Nominate, Industry in its two sub-steps and Urbanist in its
\* two sub-steps.
C2_CurrentPlayer ==
    IF is_terminal THEN current_player(State) = TERMINAL_PLAYER
    ELSE IF pending_draws > 0 THEN current_player(State) = CHANCE_PLAYER
    ELSE IF phase \in {"DRAW", "CONTROL", "PLACE"} THEN current_player(State) = MAYOR
    ELSE /\ phase = "NOMINATE"
         /\ sub_phase \in {"industry_commit_1", "industry_commit_2"}
                => current_player(State) = INDUSTRY
         /\ sub_phase \in {"urbanist_commit_1", "urbanist_commit_2"}
                => current_player(State) = URBANIST
         /\ sub_phase \in {"industry_commit_1", "industry_commit_2",
                           "urbanist_commit_1", "urbanist_commit_2"}

\* The Urbanist is to make its second nomination.
C2_Witness ==
    /\ phase = "NOMINATE" /\ sub_phase = "urbanist_commit_2"
    /\ current_player(State) = URBANIST

\* C3: legal_actions for the current actor is non-empty in every state that
\* is not terminal, and empty in every terminal state.
C3_LegalActions == (legal_actions(State) = {}) <=> is_terminal

\* An advisor is to nominate from an empty tray.
C3_Witness ==
    /\ phase = "NOMINATE" /\ ~is_terminal
    /\ advisor_trays[RoleKey(current_player(State))] = {}

\* The outcomes of the reshuffle action a may perform in state s.
Reshuffles(s, a) == IF a \in BuildInputs THEN ReshuffleInputs(s) ELSE {"keep"}

\* The move from s to n advances the pending draws, the reveals, the
\* Nominate sub-step or the phase; a move a guard drops advances none.
Advances(s, n) ==
    \/ n.pending_draws < s.pending_draws
    \/ Len(n.revealed_indices) > Len(s.revealed_indices)
    \/ s.phase = "NOMINATE" /\ n.phase = "NOMINATE" /\ n.sub_phase # s.sub_phase
    \/ PhaseOf(n) # PhaseOf(s)

\* Every legal action of s advances it; after is the state apply_action is
\* called on and frontier its playable frontier, both worked out once for
\* all the actions.
AllAdvance(s, after, frontier) ==
    \A a \in legal_actions(s) : \A sh \in Reshuffles(s, a) :
        Advances(s, apply_action_on(after, frontier, a, sh))

\* C4: in a state that is not terminal every ID legal_actions returns takes
\* effect when applied: no guard of _apply_reveal, _apply_commit or
\* _apply_place drops it, and it advances the pending draws, the reveals,
\* the Nominate sub-step or the phase.
C4_LegalTakesEffect ==
    AllAdvance(State, State, GetPlayableFrontier(built_hexes))

\* Four nominations are up for the Mayor, the first on the last hex of the
\* capped frontier.
C4_Witness ==
    /\ phase = "PLACE" /\ ~is_terminal /\ Len(nominations) = MAX_NOMINATIONS
    /\ nominations[1].hex = GetPlayableFrontier(built_hexes)[MaxFrontier]

\* The hex a BUILD action of state s builds on.
NominatedHex(s, a) ==
    RepairedNominations(s)[((a - ACTION_BUILD_BASE) % MAX_NOMINATIONS) + 1].hex

\* The move from s to n ends the game on a mine, the Mayor's score kept.
EndsOnMine(s, n) ==
    /\ n.is_terminal /\ n.mayor_hit_mine
    /\ returns(n)[MAYOR + 1] = returns(s)[MAYOR + 1]

\* C5: a BUILD on a hex whose reality is a Spade ends the game in the same
\* call and sets the mine flag, and leaves returns()[mayor] as it was.
C5_MineBuild ==
    \A a \in legal_actions(State) \cap BuildInputs : \A sh \in Reshuffles(State, a) :
        RealityOf(State, NominatedHex(State, a)).suit = SPADES
            => EndsOnMine(State, apply_action(State, a, sh))

\* The Mayor has built on a mine.
C5_Witness ==
    /\ mayor_hit_mine /\ is_terminal
    /\ turn_history[Len(turn_history)].reality.suit = SPADES

BothComplete(f) ==
    f.hearts >= FACILITIES_TO_COMPLETE /\ f.diamonds >= FACILITIES_TO_COMPLETE

\* The build that led to n completed the city exactly when it was off a
\* mine and left both counters complete.
CompletesIff(n, off_mine) ==
    n.city_complete <=> (off_mine /\ BothComplete(n.facilities))

\* C6: the game ends by city completion exactly when a BUILD off a mine
\* leaves both facility counters at 10 or more; the mine flag is false then,
\* and the city flag and the mine flag are never both true.
C6_CityCompletion ==
    /\ city_complete <=> (is_terminal /\ ~mayor_hit_mine)
    /\ city_complete <=> BothComplete(facilities)
    /\ ~(city_complete /\ mayor_hit_mine)
    /\ \A a \in legal_actions(State) \cap BuildInputs : \A sh \in Reshuffles(State, a) :
            CompletesIff(apply_action(State, a, sh),
                         RealityOf(State, NominatedHex(State, a)).suit # SPADES)

\* The city is complete.
C6_Witness ==
    /\ city_complete /\ is_terminal
    /\ facilities.diamonds = FACILITIES_TO_COMPLETE

\* C7: once terminal the game stays terminal, and any apply_action, with any
\* ID, leaves the scores, the built hexes, the reality, the facilities, the
\* turn counter and the mine and city flags unchanged.
C7_TerminalImmutable ==
    [][is_terminal
        => /\ is_terminal'
           /\ UNCHANGED <<scores, built_hexes, reality, facilities, turn,
                          mayor_hit_mine, city_complete>>]_vars

\* C8: the deck, the discard pile, the hand and the cards used as hex
\* reality are 39 cards together.
C8_CardConservation ==
    Len(deck) + Len(discard) + Len(hand) + Cardinality(DOMAIN reality) = NUM_CARDS

\* built1 is built with one hex of the frontier appended.
AppendsFrom(frontier, built, built1) ==
    /\ Len(built1) = Len(built) + 1
    /\ SubSeq(built1, 1, Len(built)) = built
    /\ built1[Len(built1)] \in SeqToSet(frontier)

\* Of the legal actions of s only a BUILD changes the built hexes, and it
\* appends a hex of the frontier; after is the state apply_action is called on.
BuiltGrowsByBuild(s, after, frontier) ==
    \A a \in legal_actions(s) : \A sh \in Reshuffles(s, a) :
        IF a \in BuildInputs
        THEN AppendsFrom(frontier, s.built_hexes,
                         apply_action_on(after, frontier, a, sh).built_hexes)
        ELSE apply_action_on(after, frontier, a, sh).built_hexes = s.built_hexes

\* C9: the frontier holds no built hex; a BUILD appends to the built hexes a
\* hex of the frontier it found, and no other action changes them; no hex is
\* built twice.
C9_FrontierAndBuilt ==
    /\ SeqToSet(GetPlayableFrontier(built_hexes)) \cap SeqToSet(built_hexes) = {}
    /\ Cardinality(SeqToSet(built_hexes)) = Len(built_hexes)
    /\ BuiltGrowsByBuild(State, State,
                         GetPlayableFrontier(built_hexes))

\* A BUILD of turn 22 of the long game: the hex built last is the one
\* recorded, and it is not on a mine.
C9_Witness ==
    /\ turn = 23 /\ ~is_terminal /\ turn_history # <<>>
    /\ turn_history[Len(turn_history)].turn = 22
    /\ built_hexes[Len(built_hexes)] = turn_history[Len(turn_history)].build.hex

\* The map reality1 holds every assignment of reality.
Extends(reality0, reality1) ==
    \A h \in DOMAIN reality0 : h \in DOMAIN reality1 /\ reality1[h] = reality0[h]

\* No legal action of s changes a reality s has assigned; after is the state
\* apply_action is called on and frontier its playable frontier.
RealityKept(s, after, frontier) ==
    \A a \in legal_actions(s) : \A sh \in Reshuffles(s, a) :
        Extends(s.reality, apply_action_on(after, frontier, a, sh).reality)

\* C10: a reality once assigned to a hex stays; the reality of the origin is
\* the Ace of Hearts; every built hex and every frontier hex has a reality.
C10_Reality ==
    /\ reality[TownCenter] = make_card(HEARTS, "A")
    /\ \A h \in SeqToSet(built_hexes) \cup SeqToSet(GetPlayableFrontier(built_hexes)) :
            h \in DOMAIN reality
    /\ RealityKept(State, State,
                   GetPlayableFrontier(built_hexes))

\* The first BUILD of a game has revealed three hexes more than the seven
\* of the start.
C10_Witness == turn = 1 /\ Len(built_hexes) = 2 /\ Cardinality(DOMAIN reality) = 10

\* The four sub-steps of Nominate, in order.
SubSteps ==
    <<"industry_commit_1", "industry_commit_2", "urbanist_commit_1", "urbanist_commit_2">>

SubStepOf(step) == CHOOSE i \in 1..Len(SubSteps) : SubSteps[i] = step

\* In the list noms no nomination of industry comes after one of urbanist.
IndustryFirst(noms) ==
    \A i \in 1..Len(noms) : \A j \in 1..Len(noms) :
        (noms[i].advisor = "urbanist" /\ noms[j].advisor = "industry") => j < i

\* The commit from s to n is one sub-step: the next sub-step with the list
\* still empty, or after the fourth the phase Place with the list filled.
OneSubStep(s, n) ==
    /\ Len(n.advisor_commits[RoleKey(current_player(s))])
            = Len(s.advisor_commits[RoleKey(current_player(s))]) + 1
    /\ IF SubStepOf(s.sub_phase) = Len(SubSteps)
       THEN /\ n.phase = "PLACE"
            /\ Len(n.nominations) \in {2, 3, 4}
            /\ n.nominations = n.advisor_commits.industry \o n.advisor_commits.urbanist
            /\ IndustryFirst(n.nominations)
            /\ \E i \in 1..Len(n.nominations) : n.nominations[i].advisor = "industry"
            /\ \E i \in 1..Len(n.nominations) : n.nominations[i].advisor = "urbanist"
       ELSE /\ n.phase = "NOMINATE"
            /\ n.nominations = <<>>
            /\ SubStepOf(n.sub_phase) = SubStepOf(s.sub_phase) + 1

\* Every legal commit of s is one sub-step; after is s as legal_actions()
\* left it and frontier its playable frontier.
CommitsStepOnce(s, after, frontier) ==
    \A a \in legal_actions(s) :
        OneSubStep(s, apply_action_on(after, frontier, a, "keep"))

\* C11: Nominate is always at one of its four sub-steps, industry's two
\* before urbanist's two, with the nominations list empty; each legal commit
\* moves to the next sub-step, and the fourth moves to Place with a list of
\* 2, 3 or 4 nominations, industry's before urbanist's.
C11_NominateSubSteps ==
    (phase = "NOMINATE" /\ ~is_terminal)
        => /\ sub_phase \in SeqToSet(SubSteps)
           /\ nominations = <<>>
           /\ (current_player(State) = INDUSTRY) <=> (SubStepOf(sub_phase) <= 2)
           /\ CommitsStepOnce(State, State,
                              GetPlayableFrontier(built_hexes))

\* The fourth commit has filled the list: two nominations of each advisor.
C11_Witness ==
    /\ phase = "PLACE" /\ ~is_terminal /\ Len(nominations) = MAX_NOMINATIONS
    /\ nominations[2].advisor = "industry" /\ nominations[3].advisor = "urbanist"
    /\ advisor_commits.urbanist = SubSeq(nominations, 3, 4)

\* The chance draw from s to n adds the card of action a to the hand.
DrawsCard(s, a, n) ==
    /\ n.hand = Append(s.hand, index_to_card(a - ACTION_CHANCE_BASE))
    /\ n.pending_draws = s.pending_draws - 1
    /\ n.phase = "DRAW" /\ n.revealed_indices = <<>>

\* The reveal from s to n adds the slot of action a, unrevealed so far, to
\* the reveals; the second one moves to Control.
RevealsSlot(s, a, n) ==
    /\ (a - ACTION_REVEAL_BASE) \in 0..(Len(s.hand) - 1)
    /\ (a - ACTION_REVEAL_BASE) \notin SeqToSet(s.revealed_indices)
    /\ n.revealed_indices = Append(s.revealed_indices, a - ACTION_REVEAL_BASE)
    /\ n.hand = s.hand
    /\ n.phase = (IF Len(s.revealed_indices) = 1 THEN "CONTROL" ELSE "DRAW")

\* The legal actions of a state s in Draw: draws while chance is to act,
\* then reveals; after is the state apply_action is called on.
DrawSteps(s, after) ==
    IF current_player(s) = CHANCE_PLAYER
    THEN /\ Len(s.hand) + s.pending_draws = HAND_DRAWS
         /\ s.phase = "DRAW" /\ s.revealed_indices = <<>>
         /\ \A a \in legal_actions(s) : DrawsCard(s, a, apply_action(after, a, "keep"))
    ELSE /\ Len(s.revealed_indices) < 2
         /\ Cardinality(legal_actions(s)) = HAND_DRAWS - Len(s.revealed_indices)
         /\ \A a \in legal_actions(s) : RevealsSlot(s, a, apply_action(after, a, "keep"))

\* C12: a turn starts with four chance draws, each adding its card to the
\* hand; the Mayor then reveals two distinct slots, only unrevealed slots
\* being offered, and the second reveal moves to Control.  Whenever a role
\* other than chance is to act the hand holds four cards and at most two
\* distinct slots are revealed.
C12_DrawAndReveal ==
    /\ (~is_terminal /\ (phase = "DRAW" \/ current_player(State) = CHANCE_PLAYER))
            => DrawSteps(State, State)
    /\ current_player(State) \in {MAYOR, INDUSTRY, URBANIST}
            => /\ Len(hand) = HAND_DRAWS
               /\ Len(revealed_indices) <= 2
               /\ Cardinality(SeqToSet(revealed_indices)) = Len(revealed_indices)
               /\ SeqToSet(revealed_indices) \subseteq 0..(HAND_DRAWS - 1)
               /\ phase # "DRAW" => Len(revealed_indices) = 2

\* The Mayor has revealed the second slot before the first one, and is in
\* Control with the four cards dealt.
C12_Witness ==
    /\ phase = "CONTROL" /\ revealed_indices = <<1, 0>>
    /\ hand = [i \in 1..HAND_DRAWS |-> index_to_card(HandScript[i])]

\* C13: an advisor that has committed two nominations has put the second on
\* another hex than the first.
C13_SecondHexDiffers ==
    \A role_key \in {"industry", "urbanist"} :
        Len(advisor_commits[role_key]) = 2
            => advisor_commits[role_key][2].hex # advisor_commits[role_key][1].hex

\* The suit role_key has to claim under the configuration of FORCE_SUITS.
AssignedSuit(config, role_key) ==
    IF config = "URB_DIAMOND_IND_HEART"
    THEN (IF role_key = "urbanist" THEN DIAMONDS ELSE HEARTS)
    ELSE (IF role_key = "urbanist" THEN HEARTS ELSE DIAMONDS)

\* C14: under FORCE_SUITS, once the phase is Place, each advisor has claimed
\* the suit assigned to it in at least one of its two nominations.
C14_ForcedSuitClaimed ==
    (phase = "PLACE" /\ ~is_terminal /\ control_mode = "FORCE_SUITS")
        => \A role_key \in {"industry", "urbanist"} :
                \E i \in 1..Len(nominations) :
                    /\ nominations[i].advisor = role_key
                    /\ nominations[i].claim.suit
                            = AssignedSuit(forced_suit_config, role_key)

\* The frontier index and the claim index a COMMIT action encodes.
CommitHexIdx(a) == (a - ACTION_COMMIT_BASE) \div NUM_CARDS
CommitClaimIdx(a) == (a - ACTION_COMMIT_BASE) % NUM_CARDS

\* The FORCE_HEXES action a of the Mayor leads from s to n: the hexes forced
\* are the frontier hexes at the two indices of the action.
ForcesChosen(a, frontier, n) ==
    /\ n.control_mode = "FORCE_HEXES"
    /\ DOMAIN n.forced_hexes = {"urbanist", "industry"}
    /\ n.forced_hexes["urbanist"]
            = frontier[((a - ACTION_CONTROL_HEX_BASE) \div MAX_FRONTIER_SIZE) + 1]
    /\ n.forced_hexes["industry"]
            = frontier[((a - ACTION_CONTROL_HEX_BASE) % MAX_FRONTIER_SIZE) + 1]

\* The hexes the legal commits of role_key in s are on.
OfferedHexes(s, frontier) ==
    {frontier[CommitHexIdx(a) + 1] : a \in legal_actions(s)}

\* Under FORCE_HEXES the first nomination is offered on the forced hex only,
\* with every claim of the tray; the second on every hex of the capped
\* frontier but the first one.
ForcedFirstOnly(s, role_key, frontier) ==
    IF IsFirstNom(s)
    THEN /\ OfferedHexes(s, frontier) = {s.forced_hexes[role_key]}
         /\ {CommitClaimIdx(a) : a \in legal_actions(s)}
                = RefilledTray(s.advisor_trays[role_key])
    ELSE OfferedHexes(s, frontier)
            = {frontier[h] : h \in 1..FrontierCap(s, frontier)}
                \ {s.advisor_commits[role_key][1].hex}

\* C15: a legal FORCE_HEXES action forces on each advisor the frontier hex at
\* the index the action gives for it; the advisor's first nomination of the
\* turn is on that hex, and its second is offered on every other hex.
C15_ForcedHexes ==
    /\ (phase = "CONTROL" /\ ~is_terminal)
            => \A a \in legal_actions(State) :
                    a >= ACTION_CONTROL_HEX_BASE
                        => ForcesChosen(a, GetPlayableFrontier(built_hexes),
                                        apply_action(State, a, "keep"))
    /\ (phase = "NOMINATE" /\ ~is_terminal /\ control_mode = "FORCE_HEXES")
            => ForcedFirstOnly(State, RoleKey(current_player(State)),
                               GetPlayableFrontier(built_hexes))
    /\ (phase \in {"NOMINATE", "PLACE"} /\ control_mode = "FORCE_HEXES")
            => \A role_key \in {"industry", "urbanist"} :
                    advisor_commits[role_key] # <<>>
                        => advisor_commits[role_key][1].hex = forced_hexes[role_key]

\* Under FORCE_HEXES(urbanist 1, industry 0) the four nominations are in:
\* the first of each advisor on its forced hex, the two hexes differing.
C15_Witness ==
    /\ phase = "PLACE" /\ control_mode = "FORCE_HEXES" /\ Len(nominations) = 4
    /\ forced_hexes["urbanist"] = GetPlayableFrontier(built_hexes)[2]
    /\ forced_hexes["industry"] = GetPlayableFrontier(built_hexes)[1]
    /\ nominations[1].hex = forced_hexes["industry"]
    /\ nominations[3].hex = forced_hexes["urbanist"]

\* The VERIFY actions offered in s are those of the nominations noms whose
\* hex is not verified yet.
VerifyOffered(s, noms) ==
    \A i \in 0..(MAX_NOMINATIONS - 1) :
        (ACTION_CONTROL_REVEAL_BASE + i) \in legal_actions(s)
            <=> (i < Len(noms) /\ noms[i + 1].hex \notin s.mayor_verified_hexes)

\* Action a leads from s to n: a VERIFY adds the hex of its nomination, any
\* other action leaves the verified set alone.
VerifiedGrows(s, after, a, n) ==
    IF s.phase = "PLACE" /\ a \in VerifyInputs
    THEN n.mayor_verified_hexes
            = s.mayor_verified_hexes
                \cup {after.nominations[a - ACTION_CONTROL_REVEAL_BASE + 1].hex}
    ELSE n.mayor_verified_hexes = s.mayor_verified_hexes

VerifiedKept(s, after, frontier) ==
    \A a \in legal_actions(s) : \A sh \in Reshuffles(s, a) :
        VerifiedGrows(s, after, a, apply_action_on(after, frontier, a, sh))

\* C16: no legal action takes a hex out of the Mayor's verified set; VERIFY is
\* offered exactly for the nominations whose hex is not verified yet, and it
\* adds that hex and no other.
C16_VerifiedGrows ==
    /\ (phase = "PLACE" /\ ~is_terminal)
            => VerifyOffered(State, RepairedNominations(State))
    /\ VerifiedKept(State, State,
                    GetPlayableFrontier(built_hexes))

\* The Mayor has verified a second hex, in the turn after its first VERIFY.
C16_Witness ==
    /\ turn = 5 /\ phase = "DRAW" /\ Cardinality(mayor_verified_hexes) = 2
    /\ turn_history[Len(turn_history)].turn < 3

\* The move from s to n has ended the turn without a build.
TurnSkipped(s, n) ==
    /\ n.built_hexes = s.built_hexes /\ n.reality = s.reality
    /\ n.deck = s.deck /\ n.discard = s.discard
    /\ n.facilities = s.facilities /\ n.scores = s.scores
    /\ returns(n) = returns(s)
    /\ n.turn_history = s.turn_history
    /\ n.turn = s.turn + 1
    /\ n.phase = "DRAW" /\ n.pending_draws = 4 /\ ~n.is_terminal
    /\ current_player(n) = CHANCE_PLAYER
    /\ n.hand = <<>> /\ n.revealed_indices = <<>> /\ n.nominations = <<>>
    /\ n.control_mode = "NONE" /\ n.forced_suit_config = "None"
    /\ n.forced_hexes = EmptyDict

VerifySkipsTurn(s, after) ==
    \A a \in legal_actions(s) \cap VerifyInputs :
        TurnSkipped(s, apply_action(after, a, "keep"))

\* C17: a legal VERIFY leaves the built hexes, the reality map, the deck, the
\* discard pile, the facilities and the three scores as they were, adds 1 to
\* the turn counter, and starts the next turn: phase Draw with 4 draws
\* pending, the hand, the reveals and the nominations empty, the control
\* decision None.
C17_VerifyEndsTurn ==
    (phase = "PLACE" /\ ~is_terminal)
        => VerifySkipsTurn(State, State)

\* A new game whose first turn ended with a VERIFY: nothing is built and the
\* second turn is at its draws.
C17_Witness ==
    /\ turn = 1 /\ phase = "DRAW" /\ pending_draws = 4 /\ turn_history = <<>>
    /\ built_hexes = <<TownCenter>> /\ mayor_verified_hexes # {}

\* The card a BUILD action of state s places.
PlacedCard(s, a) == s.hand[((a - ACTION_BUILD_BASE) \div MAX_NOMINATIONS) + 1]

\* Action a leads from s to n: a BUILD off a mine with a card of the suit of
\* the hex gives the Mayor 1, every other action leaves its score alone.
MayorGain(s, a, n) ==
    n.scores.mayor - s.scores.mayor
        = (IF /\ s.phase = "PLACE" /\ a \in BuildInputs
              /\ RealityOf(s, NominatedHex(s, a)).suit # SPADES
              /\ PlacedCard(s, a).suit = RealityOf(s, NominatedHex(s, a)).suit
           THEN 1 ELSE 0)

MayorGains(s, after, frontier) ==
    \A a \in legal_actions(s) : \A sh \in Reshuffles(s, a) :
        MayorGain(s, a, apply_action_on(after, frontier, a, sh))

\* C18: a BUILD adds exactly 1 to the Mayor's score if the reality of the
\* built hex is not a Spade and has the suit of the placed card, and nothing
\* otherwise; no other action changes the Mayor's score, which is never
\* negative and never above the number of builds.
C18_MayorScore ==
    /\ MayorGains(State, State,
                  GetPlayableFrontier(built_hexes))
    /\ 0 <= scores.mayor /\ scores.mayor <= Len(turn_history)
    /\ Len(turn_history) <= Len(built_hexes) - 1
    /\ returns(State)[MAYOR + 1] = scores.mayor

\* The first build of a game was a Hearts card on a Hearts hex: the Mayor has
\* its first point.
C18_Witness ==
    /\ Len(turn_history) = 1 /\ scores.mayor = 1
    /\ turn_history[1].build.card.suit = HEARTS
    /\ turn_history[1].reality.suit = HEARTS

\* The nominations of advisor on hex, in the order of the list.
NomsOn(noms, hex, advisor) ==
    SelectSeq(noms, LAMBDA nom : nom.hex = hex /\ nom.advisor = advisor)

\* What the mine scoring gives advisor for the built hex: nothing if it did
\* not nominate it, else +1 for a Spade claim and -3 for another claim (its
\* first claim on the hex, should it have two).
MineScore(noms, hex, advisor) ==
    IF NomsOn(noms, hex, advisor) = <<>> THEN 0
    ELSE IF NomsOn(noms, hex, advisor)[1].claim.suit = SPADES THEN 1
    ELSE -3

\* The BUILD from s (nominations noms) to n on the mine hex has recorded the
\* mine scoring as the score changes of the turn.
MineScored(noms, hex, n) ==
    /\ n.turn_history[Len(n.turn_history)].build.hex = hex
    /\ n.turn_history[Len(n.turn_history)].scores_delta.mayor = 0
    /\ \A advisor \in {"industry", "urbanist"} :
            n.turn_history[Len(n.turn_history)].scores_delta[advisor]
                = MineScore(noms, hex, advisor)

MineBuildsScored(s, after) ==
    \A a \in legal_actions(s) \cap BuildInputs : \A sh \in Reshuffles(s, a) :
        RealityOf(s, NominatedHex(s, a)).suit = SPADES
            => MineScored(after.nominations, NominatedHex(s, a),
                          apply_action(after, a, sh))

\* C19: when a BUILD lands on a Spade hex, the mine scoring changes the score
\* of each advisor that nominated the hex once, by +1 if it claimed a Spade
\* and by -3 if not, and the score of no advisor that did not nominate it.
C19_MineScoring ==
    (phase = "PLACE" /\ ~is_terminal)
        => MineBuildsScored(State, State)

\* The Mayor has built on a mine that industry had nominated with a Spade
\* claim and urbanist with a Hearts claim.
C19_Witness ==
    /\ mayor_hit_mine
    /\ turn_history[Len(turn_history)].scores_delta
            = [mayor |-> 0, industry |-> 1, urbanist |-> -3]

\* The number of nominations of advisor in noms that deny a mine (lie = 3)
\* or cry mine on a safe hex (lie = 2), reality being the map.
Lies(noms, reality_map, advisor, lie) ==
    Cardinality({i \in 1..Len(noms) :
        /\ noms[i].advisor = advisor
        /\ IF lie = 3
           THEN reality_map[noms[i].hex].suit = SPADES /\ noms[i].claim.suit # SPADES
           ELSE reality_map[noms[i].hex].suit # SPADES /\ noms[i].claim.suit = SPADES})

\* The scores of n are those of s with the score changes recorded for the
\* turn and penalty times the death-reveal penalties.
ScoresAfterBuild(s, noms, n, penalty) ==
    /\ n.scores.mayor
            = s.scores.mayor + n.turn_history[Len(n.turn_history)].scores_delta.mayor
    /\ \A advisor \in {"industry", "urbanist"} :
            n.scores[advisor]
                = s.scores[advisor]
                  + n.turn_history[Len(n.turn_history)].scores_delta[advisor]
                  - penalty * (3 * Lies(noms, n.reality, advisor, 3)
                               + 2 * Lies(noms, n.reality, advisor, 2))

DeathRevealOnMine(s, after) ==
    \A a \in legal_actions(s) : \A sh \in Reshuffles(s, a) :
        IF a \in VerifyInputs
        THEN apply_action(after, a, sh).scores = s.scores
        ELSE ScoresAfterBuild(s, after.nominations, apply_action(after, a, sh),
                IF RealityOf(s, NominatedHex(s, a)).suit = SPADES THEN 1 ELSE 0)

\* C20: a BUILD on a mine ends with the death reveal: on top of the mine
\* scoring, each nomination of the turn, on the built hex or not, costs its
\* advisor 3 if its hex is a mine and its claim is not a Spade, and 2 if its
\* hex is no mine and its claim is a Spade.  A BUILD off a mine and a VERIFY
\* apply no such penalty.
C20_DeathReveal ==
    (phase = "PLACE" /\ ~is_terminal)
        => DeathRevealOnMine(State, State)

\* The Mayor has built on a mine that urbanist had nominated with a Hearts
\* claim, urbanist's other nomination crying mine on a safe hex: -3 by the
\* mine scoring, -3 and -2 by the death reveal.
C20_Witness ==
    /\ mayor_hit_mine /\ Len(turn_history) = 1
    /\ turn_history[1].scores_delta.urbanist = -3
    /\ scores.urbanist = -8

\* ------------------------------------------------------------------------
\* Scoring of a BUILD off a mine
\* ------------------------------------------------------------------------
\* The change of the score of role from s to n.
Delta(s, n, role) == n.scores[role] - s.scores[role]

OtherAdvisor(advisor) == IF advisor = "industry" THEN "urbanist" ELSE "industry"

\* Both advisors nominated hex with the same Spade claim.
AgreedSpade(noms, hex) ==
    \E i \in 1..Len(noms) : \E j \in 1..Len(noms) :
        /\ noms[i].hex = hex /\ noms[j].hex = hex
        /\ noms[i].advisor = "industry" /\ noms[j].advisor = "urbanist"
        /\ noms[i].claim.suit = SPADES
        /\ noms[j].claim.suit = SPADES
        /\ noms[i].claim.value = noms[j].claim.value

\* The rank of a nomination in the tie-break for the placed card: the
\* distance of the values, then the suit of the card, then the affinity of
\* the claim (Hearts to urbanist, Diamonds and Spades to industry).
TieKey(nom, placed_card) ==
    << Abs(nom.claim.value - placed_card.value),
       IF nom.claim.suit = placed_card.suit THEN 0 ELSE 1,
       IF \/ nom.claim.suit = HEARTS /\ nom.advisor = "urbanist"
          \/ nom.claim.suit \in {DIAMONDS, SPADES} /\ nom.advisor = "industry"
       THEN 0 ELSE 1 >>

KeyBefore(k1, k2) ==
    \/ k1[1] < k2[1]
    \/ k1[1] = k2[1] /\ k1[2] < k2[2]
    \/ k1[1] = k2[1] /\ k1[2] = k2[2] /\ k1[3] < k2[3]

\* noms[i] is the winning nomination of hex: no nomination of hex ranks
\* before it, and it is the first in the list of those ranking as it does.
Wins(noms, i, hex, placed_card) ==
    /\ noms[i].hex = hex
    /\ \A j \in 1..Len(noms) :
            noms[j].hex = hex
                => /\ ~KeyBefore(TieKey(noms[j], placed_card), TieKey(noms[i], placed_card))
                   /\ j < i => KeyBefore(TieKey(noms[i], placed_card),
                                         TieKey(noms[j], placed_card))

\* What the winning claim earns for the placed card and the reality.
WinnerGain(claim_suit, placed_suit, reality_suit) ==
    IF placed_suit = claim_suit THEN 1
    ELSE IF claim_suit = reality_suit THEN 1
    ELSE IF claim_suit = SPADES THEN -2
    ELSE 0

\* The BUILD from s to n of placed_card on hex, nominations noms: the
\* advisor of the winning nomination earns WinnerGain, the other nothing.
OnlyWinnerScored(s, n, noms, hex, placed_card, reality_suit) ==
    \E i \in 1..Len(noms) :
        /\ Wins(noms, i, hex, placed_card)
        /\ Delta(s, n, noms[i].advisor)
                = WinnerGain(noms[i].claim.suit, placed_card.suit, reality_suit)
        /\ Delta(s, n, OtherAdvisor(noms[i].advisor)) = 0

WinnersScored(s, after) ==
    \A a \in legal_actions(s) \cap BuildInputs : \A sh \in Reshuffles(s, a) :
        (/\ RealityOf(s, NominatedHex(s, a)).suit # SPADES
         /\ ~AgreedSpade(after.nominations, NominatedHex(s, a)))
            => OnlyWinnerScored(s, apply_action(after, a, sh), after.nominations,
                                NominatedHex(s, a), PlacedCard(s, a),
                                RealityOf(s, NominatedHex(s, a)).suit)

\* C21: a BUILD off a mine, the two advisors not having nominated the hex
\* with the same Spade claim, changes the score of the advisor of the
\* winning nomination only: by +1 if the placed card has the suit of the
\* claim, else by +1 if the claim has the suit of the reality, else by -2 if
\* the claim is a Spade, else by 0.
C21_WinnerScoring ==
    (phase = "PLACE" /\ ~is_terminal)
        => WinnersScored(State, State)

\* A BUILD off a mine whose winning nomination, industry's, cried mine and
\* was not trusted: industry has lost 2, urbanist nothing.
C21_Witness ==
    /\ turn_history # <<>> /\ ~is_terminal
    /\ turn_history[Len(turn_history)].reality.suit # SPADES
    /\ turn_history[Len(turn_history)].build.card.suit # SPADES
    /\ turn_history[Len(turn_history)].scores_delta.industry = -2
    /\ turn_history[Len(turn_history)].scores_delta.urbanist = 0

AgreedSpadesPenalized(s, after) ==
    \A a \in legal_actions(s) \cap BuildInputs : \A sh \in Reshuffles(s, a) :
        (/\ RealityOf(s, NominatedHex(s, a)).suit # SPADES
         /\ AgreedSpade(after.nominations, NominatedHex(s, a)))
            => /\ Delta(s, apply_action(after, a, sh), "industry") = -2
               /\ Delta(s, apply_action(after, a, sh), "urbanist") = -2

\* C22: a BUILD off a mine on a hex both advisors nominated with the same
\* Spade claim takes 2 from the score of each advisor, for every placed
\* card: no winning nomination earns its +1.
C22_AgreedSpade ==
    (phase = "PLACE" /\ ~is_terminal)
        => AgreedSpadesPenalized(State, State)

\* ------------------------------------------------------------------------
\* A Spade claim on a hex that is no mine
\* ------------------------------------------------------------------------
\* advisor nominated hex with a Spade claim.
CriedMine(noms, hex, advisor) ==
    \E i \in 1..Len(noms) :
        noms[i].hex = hex /\ noms[i].advisor = advisor /\ noms[i].claim.suit = SPADES

\* The winning nomination of hex is a Spade claim of advisor.
WinsCryingMine(noms, hex, advisor, placed_card) ==
    \E i \in 1..Len(noms) :
        /\ Wins(noms, i, hex, placed_card)
        /\ noms[i].advisor = advisor /\ noms[i].claim.suit = SPADES

FalseAlarmsPenalized(s, after) ==
    \A a \in legal_actions(s) \cap BuildInputs : \A sh \in Reshuffles(s, a) :
        \A advisor \in {"industry", "urbanist"} :
            (/\ RealityOf(s, NominatedHex(s, a)).suit # SPADES
             /\ CriedMine(after.nominations, NominatedHex(s, a), advisor))
                => Delta(s, apply_action(after, a, sh), advisor) = -2

\* C23 as stated: a BUILD on a hex that is no mine takes 2 from the score of
\* every advisor that nominated the hex with a Spade claim, whatever the
\* placed card and the other nominations of the hex.
C23_FalseAlarm ==
    (phase = "PLACE" /\ ~is_terminal)
        => FalseAlarmsPenalized(State, State)

WinningAlarmsPenalized(s, after) ==
    \A a \in legal_actions(s) \cap BuildInputs : \A sh \in Reshuffles(s, a) :
        \A advisor \in {"industry", "urbanist"} :
            (/\ RealityOf(s, NominatedHex(s, a)).suit # SPADES
             /\ CriedMine(after.nominations, NominatedHex(s, a), advisor)
             /\ ~AgreedSpade(after.nominations, NominatedHex(s, a)))
                => /\ (Delta(s, apply_action(after, a, sh), advisor) = -2)
                        <=> (/\ WinsCryingMine(after.nominations, NominatedHex(s, a),
                                               advisor, PlacedCard(s, a))
                             /\ PlacedCard(s, a).suit # SPADES)
                   /\ (/\ WinsCryingMine(after.nominations, NominatedHex(s, a),
                                          advisor, PlacedCard(s, a))
                       /\ PlacedCard(s, a).suit = SPADES)
                        => Delta(s, apply_action(after, a, sh), advisor) = 1

\* C23 amended: on a BUILD off a mine, the advisors not having nominated the
\* hex with the same Spade claim, an advisor that nominated the hex with a
\* Spade claim loses 2 exactly when that nomination is the winning one and
\* the placed card is no Spade; when it wins and the placed card is a Spade
\* the advisor gains 1.
C23_WinningFalseAlarm ==
    (phase = "PLACE" /\ ~is_terminal)
        => WinningAlarmsPenalized(State, State)

\* A BUILD off a mine whose winning nomination, urbanist's, cried mine and
\* was not trusted: urbanist has lost 2, industry nothing.
C23_Witness ==
    /\ turn_history # <<>> /\ ~is_terminal
    /\ turn_history[Len(turn_history)].reality.suit # SPADES
    /\ turn_history[Len(turn_history)].build.card.suit # SPADES
    /\ turn_history[Len(turn_history)].scores_delta.urbanist = -2
    /\ turn_history[Len(turn_history)].scores_delta.industry = 0

\* ------------------------------------------------------------------------
\* A truthful claim the Mayor trusts
\* ------------------------------------------------------------------------
\* noms[i] is on hex, claims the suit of its reality, which is no Spade, and
\* the placed card has that suit.
TrustedTruth(noms, i, hex, placed_card, reality_suit) ==
    /\ noms[i].hex = hex
    /\ reality_suit # SPADES
    /\ noms[i].claim.suit = reality_suit
    /\ placed_card.suit = reality_suit

TruthRewarded(s, after) ==
    \A a \in legal_actions(s) \cap BuildInputs : \A sh \in Reshuffles(s, a) :
        \A i \in 1..Len(after.nominations) :
            TrustedTruth(after.nominations, i, NominatedHex(s, a), PlacedCard(s, a),
                         RealityOf(s, NominatedHex(s, a)).suit)
                => /\ Delta(s, apply_action(after, a, sh), after.nominations[i].advisor) = 1
                   /\ Delta(s, apply_action(after, a, sh), "mayor") = 1

\* C24 as stated: a BUILD with a card of the suit of the hex, which is no
\* mine, adds 1 to the score of the Mayor and 1 to the score of every advisor
\* that nominated the hex claiming that suit, the other advisor having
\* nominated the hex or not.
C24_TruthRewarded ==
    (phase = "PLACE" /\ ~is_terminal)
        => TruthRewarded(State, State)

\* The winning nomination of hex is one of the other advisor.
OtherWins(noms, hex, advisor, placed_card) ==
    \E j \in 1..Len(noms) :
        Wins(noms, j, hex, placed_card) /\ noms[j].advisor = OtherAdvisor(advisor)

WinningTruthRewarded(s, after) ==
    \A a \in legal_actions(s) \cap BuildInputs : \A sh \in Reshuffles(s, a) :
        \A i \in 1..Len(after.nominations) :
            TrustedTruth(after.nominations, i, NominatedHex(s, a), PlacedCard(s, a),
                         RealityOf(s, NominatedHex(s, a)).suit)
                => /\ Delta(s, apply_action(after, a, sh), "mayor") = 1
                   /\ ~AgreedSpade(after.nominations, NominatedHex(s, a))
                        => /\ Wins(after.nominations, i, NominatedHex(s, a), PlacedCard(s, a))
                                => Delta(s, apply_action(after, a, sh),
                                         after.nominations[i].advisor) = 1
                           /\ OtherWins(after.nominations, NominatedHex(s, a),
                                        after.nominations[i].advisor, PlacedCard(s, a))
                                => Delta(s, apply_action(after, a, sh),
                                         after.nominations[i].advisor) = 0

\* C24 amended: such a BUILD adds 1 to the score of the Mayor; it adds 1 to
\* the score of the advisor if its truthful nomination is the winning one of
\* the hex, and leaves that score unchanged if a nomination of the other
\* advisor wins the tie-break (the advisors not having both nominated the hex
\* with the same Spade claim).
C24_WinningTruthRewarded ==
    (phase = "PLACE" /\ ~is_terminal)
        => WinningTruthRewarded(State, State)

\* A Hearts card built on a Hearts hex that urbanist's winning nomination
\* claimed as Hearts: the Mayor and urbanist have gained 1, industry nothing.
C24_Witness ==
    /\ turn_history # <<>> /\ ~is_terminal
    /\ turn_history[Len(turn_history)].reality.suit = HEARTS
    /\ turn_history[Len(turn_history)].build.card.suit = HEARTS
    /\ turn_history[Len(turn_history)].scores_delta
            = [mayor |-> 1, industry |-> 0, urbanist |-> 1]

\* ------------------------------------------------------------------------
\* Turn rewards (kept doubled, as turn_rewards is)
\* ------------------------------------------------------------------------
Roles == {"mayor", "industry", "urbanist"}

\* Twice own_delta - (sum of the two other deltas) / 2 for role, d being the
\* deltas of the three roles.
Relative(d, role) ==
    2 * d[role] - ((d.mayor + d.industry + d.urbanist) - d[role])

\* The changes of the scores from s to n.
ScoreChanges(s, n) == [role \in Roles |-> Delta(s, n, role)]

RewardsRelative(s, after) ==
    \A a \in legal_actions(s) \cap BuildInputs : \A sh \in Reshuffles(s, a) :
        \A role \in Roles :
            apply_action(after, a, sh).turn_rewards[role]
                = Relative(ScoreChanges(s, apply_action(after, a, sh)), role)

\* C25 as stated: after a BUILD the turn reward of each role is its score
\* change by the BUILD minus half the sum of the score changes of the two
\* other roles.
C25_TurnRewards ==
    (phase = "PLACE" /\ ~is_terminal)
        => RewardsRelative(State, State)

\* Twice the bonus for the nomination noms[i], on a mine that is not the
\* built hex: 10 if it claimed no Spade, 2 if it claimed one.
DodgeOf(s, noms, i, hex) ==
    IF i > Len(noms) THEN 0
    ELSE IF noms[i].hex = hex \/ RealityOf(s, noms[i].hex).suit # SPADES THEN 0
    ELSE IF noms[i].claim.suit # SPADES THEN 20
    ELSE 4

\* The BUILD on hex from s (nominations noms) to n: the rewards of the
\* advisors are relative to the deltas recorded for the turn; the Mayor's is
\* -10 on a mine, and off a mine 10 and the dodge bonuses above the relative
\* reward.
RewardsOfBuild(s, noms, hex, n) ==
    /\ \A advisor \in {"industry", "urbanist"} :
            n.turn_rewards[advisor]
                = Relative(n.turn_history[Len(n.turn_history)].scores_delta, advisor)
    /\ n.turn_rewards.mayor
            = IF RealityOf(s, hex).suit = SPADES THEN -20
              ELSE Relative(n.turn_history[Len(n.turn_history)].scores_delta, "mayor")
                   + 20
                   + DodgeOf(s, noms, 1, hex) + DodgeOf(s, noms, 2, hex)
                   + DodgeOf(s, noms, 3, hex) + DodgeOf(s, noms, 4, hex)

RewardsShaped(s, after) ==
    \A a \in legal_actions(s) \cap BuildInputs : \A sh \in Reshuffles(s, a) :
        RewardsOfBuild(s, after.nominations, NominatedHex(s, a),
                       apply_action(after, a, sh))

\* C25 amended: after a BUILD the turn reward of each advisor is its delta
\* minus half the sum of the two other deltas, the deltas being the score
\* changes of the scoring of the BUILD (before the death reveal); the Mayor's
\* turn reward is -10 when the hex is a mine, and otherwise that expression
\* plus 10 plus 10 for each other nomination on a mine claimed as no Spade
\* and 2 for each one claimed as a Spade.
C25_ShapedTurnRewards ==
    (phase = "PLACE" /\ ~is_terminal)
        => RewardsShaped(State, State)

\* After the BUILD of turn 4 that gave the Mayor and urbanist 1 each: the
\* rewards are 10.5, -1 and 0.5.
C25_Witness ==
    /\ turn = 5 /\ phase = "DRAW" /\ Len(turn_history) = 4
    /\ turn_history[4].scores_delta = [mayor |-> 1, industry |-> 0, urbanist |-> 1]
    /\ turn_rewards = [mayor |-> 21, industry |-> -2, urbanist |-> 1]

ZeroRewards == [mayor |-> 0, industry |-> 0, urbanist |-> 0]

\* The rewards a BUILD or a VERIFY of s leaves are those it would have left
\* had it found the rewards at zero; after is the state apply_action is called on.
RewardsOverwritten(s, after) ==
    \A a \in legal_actions(s) : \A sh \in Reshuffles(s, a) :
        apply_action(after, a, sh).turn_rewards
            = apply_action([after EXCEPT !.turn_rewards = ZeroRewards], a, sh).turn_rewards

\* C26: the turn rewards are overwritten, never accumulated: the rewards at
\* the end of a turn, by BUILD or by VERIFY, do not depend on the rewards the
\* earlier turns left.
C26_RewardsOverwritten ==
    (phase = "PLACE" /\ ~is_terminal)
        => RewardsOverwritten(State, State)

\* ---- The facility counters ----

\* The built hexes whose reality is of the suit, as positions of built_hexes.
BuiltOfSuit(suit) ==
    {i \in 1..Len(built_hexes) :
        built_hexes[i] \in DOMAIN reality /\ reality[built_hexes[i]].suit = suit}

FacilitiesCounted ==
    /\ facilities.hearts = Cardinality(BuiltOfSuit(HEARTS))
    /\ facilities.diamonds = Cardinality(BuiltOfSuit(DIAMONDS))
    /\ facilities.hearts + facilities.diamonds
           = Len(built_hexes) - (IF mayor_hit_mine THEN 1 ELSE 0)

FacilitiesKept ==
    /\ facilities'.hearts >= facilities.hearts
    /\ facilities'.diamonds >= facilities.diamonds

\* C27: the Hearts counter is the number of built hexes whose reality is a
\* Heart, the town center included, the Diamonds counter the number of built
\* hexes whose reality is a Diamond; together they are the number of built
\* hexes, less one when the Mayor hit a mine; no step lowers a counter.
C27_Facilities == [](FacilitiesCounted) /\ [][FacilitiesKept]_vars

\* After the BUILD of turn 19 on a hex whose reality is a Diamond: 14 Hearts
\* with the town center, 4 Diamonds, 18 built hexes.
C27_Witness ==
    /\ turn = 20 /\ phase = "DRAW" /\ ~mayor_hit_mine
    /\ turn_history[Len(turn_history)].turn = 19
    /\ turn_history[Len(turn_history)].reality.suit = DIAMONDS
    /\ facilities = [hearts |-> 14, diamonds |-> 4]
    /\ Len(built_hexes) = 18

\* ---- The action codec ----

\* C28: reading an action ID back gives the move it was built from, for
\* every reveal slot below 4, every pair of hex indices below 50, every hex
\* index below 50 with every claim below 39, every hand card below 4 with
\* every nomination below 4 and every chance card; and the index of the
\* card of an index below 39 is that index.
C28_CodecRoundTrip ==
    codec.stage = "decoded" => codec.decoded = codec.move

\* The last commit of the range, hex index 49 with claim 38, read back.
C28_Witness ==
    /\ codec.stage = "decoded" /\ codec.kind = "commit"
    /\ codec.move = <<49, 38>> /\ codec.id = ACTION_BUILD_BASE - 1
    /\ codec.decoded = <<49, 38>>

\* ---- The ranges of the action IDs ----

\* The IDs from lo up to hi, hi left out.
Range(lo, hi) == lo..(hi - 1)

RevealRange == Range(ACTION_REVEAL_BASE, ACTION_REVEAL_BASE + ACTION_REVEAL_COUNT)
ControlRange == Range(ACTION_CONTROL_BASE, ACTION_CONTROL_BASE + ACTION_CONTROL_COUNT)
VerifyRange ==
    Range(ACTION_CONTROL_REVEAL_BASE,
          ACTION_CONTROL_REVEAL_BASE + ACTION_CONTROL_REVEAL_COUNT)
CommitRange == Range(ACTION_COMMIT_BASE, ACTION_COMMIT_BASE + ACTION_COMMIT_COUNT)
BuildRange == Range(ACTION_BUILD_BASE, ACTION_BUILD_BASE + ACTION_BUILD_COUNT)
ChanceRange == Range(ACTION_CHANCE_BASE, ACTION_CHANCE_BASE + ACTION_CHANCE_COUNT)

\* The five ranges as the claim numbers them, each starting where the one
\* before ends, the verify block being the last 50 IDs of the control range.
RangesContiguous ==
    /\ RevealRange = Range(0, 4)
    /\ ControlRange = Range(4, 2556)
    /\ CommitRange = Range(2556, 4506)
    /\ BuildRange = Range(4506, 4522)
    /\ ChanceRange = Range(4522, 4561)
    /\ TOTAL_ACTIONS = 4561
    /\ ACTION_CONTROL_HEX_BASE = ACTION_CONTROL_BASE + 2
    /\ ACTION_CONTROL_REVEAL_BASE = ACTION_CONTROL_HEX_BASE + 2500
    /\ VerifyRange = Range(2506, 2556)
    /\ VerifyRange \cap BuildRange = {}

\* The IDs that may be legal in s.
PhaseRange(s) ==
    IF current_player(s) = CHANCE_PLAYER THEN ChanceRange
    ELSE IF s.phase = "DRAW" THEN RevealRange
    ELSE IF s.phase = "CONTROL" THEN ControlRange \ VerifyRange
    ELSE IF s.phase = "NOMINATE" THEN CommitRange
    ELSE BuildRange \cup VerifyRange

\* C29: the ranges of the action IDs are contiguous and disjoint: REVEAL
\* from 0, CONTROL from 4 (two suit configurations, 2500 hex pairs, 50 verify
\* IDs), COMMIT from 2556, BUILD from 4506, CHANCE from 4522 to 4561; every
\* ID legal_actions returns lies in the range of the current phase, a verify
\* ID being legal in PLACE only.
C29_ActionRanges ==
    /\ RangesContiguous
    /\ legal_actions(State) \subseteq PhaseRange(State)

\* PLACE with a verify ID and a BUILD ID both legal.
C29_Witness ==
    /\ phase = "PLACE" /\ ~is_terminal
    /\ ACTION_CONTROL_REVEAL_BASE \in legal_actions(State)
    /\ ACTION_BUILD_BASE \in legal_actions(State)
    /\ legal_actions(State) \cap ControlRange \subseteq VerifyRange

\* ---- Action IDs that are not legal ----

\* IDs a caller may pass that legal_actions(s) does not hold: the first
\* reveal ID, the first verify ID, the first BUILD ID and the first ID past
\* every range; in NOMINATE and in PLACE the ID before the first ID of the
\* phase, which gives the handler the index -1 into the frontier or the
\* hand.  (An ID further below, whose index lies below -len of the list,
\* ends in an IndexError of the list; those are left out.)
MalformedInputs(s) ==
    (IF s.phase = "NOMINATE"
     THEN {ACTION_COMMIT_BASE - 1, ACTION_BUILD_BASE, TOTAL_ACTIONS}
     ELSE IF s.phase = "PLACE"
     THEN {ACTION_BUILD_BASE - 1, ACTION_BUILD_BASE, TOTAL_ACTIONS}
     ELSE {ACTION_REVEAL_BASE, ACTION_CONTROL_REVEAL_BASE, ACTION_BUILD_BASE,
           TOTAL_ACTIONS})
    \ legal_actions(s)

\* apply_action leaves s as it was for every such ID.
MalformedRejected(s, frontier) ==
    \A a \in MalformedInputs(s) : apply_action_on(s, frontier, a, "keep") = s

\* C30: apply_action with an ID outside every range, or outside the ranges
\* of the current phase, is rejected: the state is left as it was, the ID is
\* not taken for a FORCE_HEXES decision or for a drawn card.
C30_MalformedRejected ==
    ~is_terminal => MalformedRejected(State, GetPlayableFrontier(built_hexes))

\* ---- The tie-break of the nominations ----

\* For every BUILD of s off a mine on a hex with several nominations, the
\* winning nomination the scoring computes is the least one of the hex in
\* the order of TieKey, the first in the list among equals; noms is the list
\* of nominations legal_actions() left.
WinnerIsLeast(s, noms) ==
    \A a \in legal_actions(s) \cap BuildInputs :
        (/\ RealityOf(s, NominatedHex(s, a)).suit # SPADES
         /\ Len(SelectSeq(noms, LAMBDA nom : nom.hex = NominatedHex(s, a))) > 1)
            => \E i \in 1..Len(noms) :
                    /\ Wins(noms, i, NominatedHex(s, a), PlacedCard(s, a))
                    /\ WinningNomination(
                            SelectSeq(noms, LAMBDA nom : nom.hex = NominatedHex(s, a)),
                            PlacedCard(s, a)) = noms[i]

\* C34: on a BUILD off a mine with several nominations for the chosen hex,
\* the winning nomination is the least in the lexicographic order of the
\* distance of the claim's value to the placed value, the claim's suit being
\* the placed suit, and the affinity (Hearts claimed by urbanist, Diamonds or
\* Spades by industry); among equals the earlier nomination of the list wins.
C34_TieBreak ==
    (phase = "PLACE" /\ ~is_terminal)
        => WinnerIsLeast(State, RepairedNominations(State))

\* After a BUILD off a mine on a hex both advisors nominated, urbanist's
\* nomination ranking before industry's for the placed card: the later
\* nomination of the list has won and earned its point.
C34_Witness ==
    /\ phase = "DRAW" /\ turn_history # <<>> /\ ~is_terminal
    /\ turn \notin StartTurns
    /\ turn_history[Len(turn_history)].turn = turn - 1
    /\ turn_history[Len(turn_history)].reality.suit # SPADES
    /\ turn_history[Len(turn_history)].scores_delta.industry = 0
    /\ turn_history[Len(turn_history)].scores_delta.urbanist = 1
    /\ \E i \in 1..Len(advisor_commits.industry),
          j \in 1..Len(advisor_commits.urbanist) :
            /\ advisor_commits.industry[i].hex = turn_history[Len(turn_history)].build.hex
            /\ advisor_commits.urbanist[j].hex = turn_history[Len(turn_history)].build.hex
            /\ KeyBefore(TieKey(advisor_commits.urbanist[j],
                                turn_history[Len(turn_history)].build.card),
                         TieKey(advisor_commits.industry[i],
                                turn_history[Len(turn_history)].build.card))

\* ---- The legal actions of PLACE ----

\* One BUILD ID for every pair of a hand card and a nomination of noms.
BuildsOffered(s, noms) ==
    /\ legal_actions(s) \cap BuildRange
         = {EncodeBuild(card_idx, nom_idx) :
                card_idx \in 0..(Len(s.hand) - 1), nom_idx \in 0..(Len(noms) - 1)}
    /\ Cardinality(legal_actions(s) \cap BuildRange) = Len(s.hand) * Len(noms)
    /\ legal_actions(s) \subseteq BuildRange \cup VerifyRange

\* The nominated hexes that are not verified yet.
UnverifiedHexes(s, noms) ==
    {noms[i].hex : i \in 1..Len(noms)} \ s.mayor_verified_hexes

\* C35 as stated: in PLACE the legal actions are one BUILD ID for every pair
\* of a hand card and a nomination, and one VERIFY ID for every nominated hex
\* that is not verified yet, a hex nominated twice giving one VERIFY.
C35_PlaceActions ==
    (phase = "PLACE" /\ ~is_terminal)
        => /\ BuildsOffered(State, RepairedNominations(State))
           /\ Cardinality(legal_actions(State) \cap VerifyRange)
                = Cardinality(UnverifiedHexes(State, RepairedNominations(State)))

\* The VERIFY IDs are those of the nominations whose hex is not verified.
VerifiesOfNominations(s, noms) ==
    legal_actions(s) \cap VerifyRange
        = {ACTION_CONTROL_REVEAL_BASE + (i - 1) :
                i \in {j \in 1..Len(noms) : noms[j].hex \notin s.mayor_verified_hexes}}

\* C35 amended: in PLACE the legal actions are one BUILD ID for every pair
\* of a hand card and a nomination, and one VERIFY ID for every nomination
\* whose hex is not verified yet: a hex nominated by both advisors gives a
\* VERIFY ID for each of its nominations, a verified hex none.
C35_PlaceActionsPerNomination ==
    (phase = "PLACE" /\ ~is_terminal)
        => /\ BuildsOffered(State, RepairedNominations(State))
           /\ VerifiesOfNominations(State, RepairedNominations(State))

\* PLACE with four nominations on two hexes, one of them verified: sixteen
\* BUILD IDs and the two VERIFY IDs of the nominations of the other hex.
C35_Witness ==
    /\ phase = "PLACE" /\ ~is_terminal /\ Len(nominations) = 4 /\ Len(hand) = 4
    /\ Cardinality({nominations[i].hex : i \in 1..4}) = 2
    /\ Cardinality(UnverifiedHexes(State, nominations)) = 1
    /\ Cardinality(legal_actions(State) \cap BuildRange) = 16
    /\ Cardinality(legal_actions(State) \cap VerifyRange) = 2

\* ---- Stale actions of the phase ----

\* The stale IDs of the handler of the phase of s: a reveal of a slot past
\* the hand or revealed already; a commit on a hex index at or past the cap
\* of the frontier (the first two such indices and the last of the range);
\* a BUILD whose card index is at or past the hand or whose nomination index
\* is at or past the nominations (the hand and the nominations of PLACE
\* being four each, these are the IDs of card index 4 here).
StaleOfPhase(s, frontier) ==
    IF current_player(s) = CHANCE_PLAYER THEN {}
    ELSE IF s.phase = "DRAW"
    THEN {EncodeReveal(i) : i \in {j \in 0..(HAND_DRAWS + 1) :
                \/ j >= Len(s.hand)
                \/ j \in SeqToSet(s.revealed_indices)}}
    ELSE IF s.phase = "NOMINATE"
    THEN {EncodeCommit(h, c) :
            h \in {k \in {FrontierCap(s, frontier), FrontierCap(s, frontier) + 1,
                           MAX_FRONTIER_SIZE - 1} : k >= FrontierCap(s, frontier)},
            c \in ClaimInputs}
    ELSE IF s.phase = "PLACE"
    THEN {EncodeBuild(k, n) : k \in {j \in 0..HAND_DRAWS : j >= Len(s.hand)},
                              n \in 0..(MAX_NOMINATIONS - 1)}
         \cup {EncodeBuild(k, n) : k \in 0..(Len(s.hand) - 1),
                                   n \in {j \in 0..(MAX_NOMINATIONS - 1) :
                                            j >= Len(s.nominations)}}
    ELSE {}

StaleIgnored(s, frontier) ==
    \A a \in StaleOfPhase(s, frontier) : apply_action_on(s, frontier, a, "keep") = s

\* C36: a stale action is a no-op: a commit on a hex index at or past
\* min(|frontier|, cap), a BUILD of a card index at or past |hand| or of a
\* nomination index at or past |nominations|, and a reveal of a slot out of
\* range or revealed already leave every field of the state as it was, the
\* phase and the sub-phase included.
C36_StaleNoOp ==
    ~is_terminal => StaleIgnored(State, GetPlayableFrontier(built_hexes))

\* One slot revealed: revealing it again, or slot 4, changes nothing.
C36_Witness ==
    /\ phase = "DRAW" /\ ~is_terminal /\ revealed_indices = <<1>>
    /\ Len(hand) = HAND_DRAWS
    /\ {EncodeReveal(1), EncodeReveal(HAND_DRAWS)}
            \subseteq StaleOfPhase(State, GetPlayableFrontier(built_hexes))
    /\ apply_action(State, EncodeReveal(1), "keep") = State

\* ---- The scores between BUILDs ----

\* A step that changes a score is a BUILD: it is taken in PLACE and records
\* a turn.
ScoresChangeByBuild ==
    scores' # scores
        => /\ phase = "PLACE"
           /\ Len(turn_history') = Len(turn_history) + 1

\* C37: the scores start at 0 and change only inside a BUILD: the chance
\* draws, the reveals, the control decisions, the commits and VERIFY leave
\* the three scores as they were.
C37_ScoresOnlyByBuild ==
    /\ InitialState(DeckOrder(0, 1)).scores = ZeroRewards
    /\ [][ScoresChangeByBuild]_vars

\* A turn ended by VERIFY with the scores of the earlier BUILDs kept.
C37_Witness ==
    /\ phase = "DRAW" /\ turn \notin StartTurns /\ turn_history # <<>>
    /\ turn_history[Len(turn_history)].turn < turn - 1
    /\ mayor_verified_hexes # {}
    /\ scores.mayor > 0

\* ---- The turn history ----

\* The sum of the score changes recorded in history for role.
RECURSIVE RecordedSum(_, _)
RecordedSum(history, role) ==
    IF history = <<>> THEN 0
    ELSE history[Len(history)].scores_delta[role]
         + RecordedSum(SubSeq(history, 1, Len(history) - 1), role)

\* A step leaves the history alone, or it is a BUILD (it builds a hex) and
\* appends one entry whose score changes are those of the step; a step that
\* builds no hex, VERIFY among them, leaves the history alone.
HistoryStep ==
    /\ Len(turn_history') >= Len(turn_history)
    /\ SubSeq(turn_history', 1, Len(turn_history)) = turn_history
    /\ Len(turn_history') - Len(turn_history)
         = Len(built_hexes') - Len(built_hexes)
    /\ Len(turn_history') <= Len(turn_history) + 1
    /\ Len(turn_history') = Len(turn_history) + 1
         => \A role \in Roles :
                turn_history'[Len(turn_history')].scores_delta[role]
                    = scores'[role] - scores[role]

\* C38: the turn history is append-only and gains one entry for every BUILD
\* and none for VERIFY; the score changes an entry records are, role by role,
\* the scores after the apply_action call of its BUILD less the scores before
\* it, so the recorded changes of a role add up to its score.
C38_TurnHistory ==
    /\ [](\A role \in Roles : RecordedSum(turn_history, role) = scores[role])
    /\ [][HistoryStep]_vars

\* ---- The queries ----

\* C39: the queries legal_actions, chance_outcomes, current_player,
\* is_terminal and returns change no field of the state: the trays of the
\* advisors, the nominations and every other field are after the call what
\* they were before it.  (chance_outcomes, current_player, is_terminal and
\* returns assign no field; legal_actions leaves AfterLegalActions.)
C39_QueriesReadOnly == AfterLegalActions(State) = State

\* ------------------------------------------------------------------------
\* The hex indices of the observations
\* ------------------------------------------------------------------------
\* C31: asking for an observation changes no persistent state, the table of
\* hex indices included: in every state, for every role, the table after
\* observation_tensor(role) is the table before it.
C31_ObservationPure ==
    \A player \in Players :
        TableAfterObservation(State, idx_to_hex, player) = idx_to_hex

\* C32: every hex an observation refers to (built, frontier, forced or
\* nominated) gets a non-negative index: in every state, for every role, each
\* hex the observation looks up has an index in the table the call leaves.
C32_HexesIndexed ==
    \A player \in Players :
        \A h \in SeqToSet(ObservedHexes(State, GetPlayableFrontier(built_hexes),
                                        player)) :
            IndexIn(TableAfterObservation(State, idx_to_hex, player), h) >= 0

\* ------------------------------------------------------------------------
\* What the observations hide
\* ------------------------------------------------------------------------
\* The card put in the place of a hidden one: the next card by index.
AltCard(card) == index_to_card((card_to_index(card) + 1) % NUM_CARDS)

\* The hexes with a reality card that are not built.
UnbuiltTiles(s) == DOMAIN s.reality \ SeqToSet(s.built_hexes)

\* The positions of the hand that are not revealed.
Unrevealed(s) == (1..Len(s.hand)) \ {idx + 1 : idx \in SeqToSet(s.revealed_indices)}

\* The Mayor's vector is the same with another card on any unbuilt hex; the
\* frontier is that of the built hexes, which the cards are no part of.
RealityHidden(s, table, frontier) ==
    \A h \in UnbuiltTiles(s) :
        observation_on([s EXCEPT !.reality[h] = AltCard(@)], table, frontier, MAYOR)
            = observation_on(s, table, frontier, MAYOR)

\* Each advisor's vector is the same with another card at any unrevealed
\* position of the hand.
HandHidden(s, table, frontier) ==
    \A i \in Unrevealed(s), player \in {INDUSTRY, URBANIST} :
        observation_on([s EXCEPT !.hand[i] = AltCard(@)], table, frontier, player)
            = observation_on(s, table, frontier, player)

\* Both, on the frontier computed once.
Hidden(s, table, frontier) ==
    RealityHidden(s, table, frontier) /\ HandHidden(s, table, frontier)

\* C40: the observations respect the information asymmetry: a state and the
\* state with another reality card on a hex not yet built give the Mayor the
\* same observation, and a state and the state with another card at an
\* unrevealed position of the Mayor's hand give each advisor the same one.
C40_Asymmetry == Hidden(State, idx_to_hex, GetPlayableFrontier(built_hexes))

\* An observation was made before the first nomination of the game (the
\* built hex has index 0), two cards of the hand are unrevealed, and the
\* advisors' vector shows the card of a frontier hex.
C40_Witness ==
    /\ phase = "NOMINATE" /\ Len(hand) = HAND_SIZE
    /\ Cardinality(Unrevealed(State)) = HAND_SIZE - REVEALED_CARDS
    /\ idx_to_hex # <<>> /\ idx_to_hex[1] = TownCenter
    /\ UnbuiltTiles(State) # {}
    /\ observation_tensor(State, idx_to_hex, INDUSTRY).reality # {}
    /\ observation_tensor(State, idx_to_hex, MAYOR).hand
            # observation_tensor(State, idx_to_hex, MAYOR).common.revealed \o <<NUM_CARDS, NUM_CARDS>>

\* ------------------------------------------------------------------------
\* A game played to its end (agents/random_agent.py: play_random_game)
\* ------------------------------------------------------------------------
\* The game whose six frontier hexes are mines: the deck is popped 2S, 3S, ...
MinedStart == InitialState(DeckOrder(SPADES * NUM_RANKS, 1))

\* The games played: CollapsizationGame() with its default parameters
\* (max_frontier is MAX_FRONTIER_SIZE), the deck in the order of the first
\* start state of the other runs, or with the mines first.
InitFair ==
    /\ \E s0 \in {InitialState(DeckOrder(26, 14)), MinedStart} :
            Holds([s0 EXCEPT !.max_frontier = MAX_FRONTIER_SIZE])
    /\ idx_to_hex = <<>> /\ codec = CodecIdle

\* The turns explored.
PlayTurns == 22

\* The lowest number of a set.
Lowest(claims) == {c \in claims : \A d \in claims : c <= d}

\* The claims an advisor chooses from: the lowest of its tray and the lowest
\* that passes the forced-suit filter.
FairClaims(s, role_key, tray) ==
    Lowest(tray)
    \cup Lowest({c \in tray : ClaimOk(s, role_key, ForcedSuit(s, role_key), c)})

\* The offered hexes, by frontier position, a BUILD on which neither hits a
\* mine nor brings the tenth Diamonds facility.
SafeHexes(s, frontier) ==
    {h \in 0..(FrontierCap(s, frontier) - 1) :
        \/ s.reality[frontier[h + 1]].suit = HEARTS
        \/ /\ s.reality[frontier[h + 1]].suit = DIAMONDS
           /\ s.facilities.diamonds < FACILITIES_TO_COMPLETE - 1}

\* The actions of the players where a safe hex is offered: the Mayor forces
\* the lowest safe hex on both advisors, an advisor makes its lowest commit,
\* and the Mayor builds with the first card of the hand (the 5 of Hearts) on
\* the first nomination, the forced hex.
CarefulInputs(s, safe) ==
    {ACTION_REVEAL_BASE + i : i \in RevealInputs}
    \cup {ACTION_CONTROL_HEX_BASE + h * MAX_FRONTIER_SIZE + h : h \in Lowest(safe)}
    \cup (IF s.phase = "NOMINATE" THEN Lowest(legal_actions(s)) ELSE {})
    \cup {ACTION_BUILD_BASE}

\* The actions of the players where every offered hex ends the game: the
\* reveals, controls, VERIFYs and BUILDs of the other runs, and the commits
\* of the claims of FairClaims.
ForcedInputs(s) ==
    {ACTION_REVEAL_BASE + i : i \in RevealInputs}
    \cup ControlInputs \cup VerifyInputs \cup BuildInputs
    \cup (IF s.phase = "NOMINATE" /\ current_player(s) \in {INDUSTRY, URBANIST}
          THEN CommitActions(
                  HexInputs,
                  FairClaims(s, RoleKey(current_player(s)),
                             RefilledTray(s.advisor_trays[RoleKey(current_player(s))])))
          ELSE {})

PlayInputsOn(s, safe) ==
    IF safe = {} THEN ForcedInputs(s) ELSE CarefulInputs(s, safe)

\* The actions the players choose from.
PlayInputs(s) == PlayInputsOn(s, SafeHexes(s, GetPlayableFrontier(s.built_hexes)))

\* One pass of the loop of play_random_game: while the state is not terminal,
\* one of chance_outcomes() is applied at a chance node, and elsewhere
\* legal_actions() is called and one of the actions it returns is applied.
play_random_game ==
    /\ turn < PlayTurns
    /\ IF current_player(State) = CHANCE_PLAYER
       THEN /\ \E a \in ChanceInputs(State) \cap chance_legal_actions :
                    Becomes(apply_action(State, a, "keep"))
            /\ UNCHANGED idx_to_hex
       ELSE /\ \E a \in PlayInputs(State) \cap legal_actions(State) :
                    \E sh \in ReshuffleInputs(State) : Becomes(Move(State, a, sh))
            /\ idx_to_hex' = LegalActionsRegistered(State, idx_to_hex)

\* The loop can make a pass: play_random_game is enabled.
CanPlay ==
    /\ turn < PlayTurns
    /\ IF current_player(State) = CHANCE_PLAYER
       THEN ChanceInputs(State) \cap chance_legal_actions # {}
       ELSE PlayInputs(State) \cap legal_actions(State) # {}

\* The loop goes on while it can: WF_vars(play_random_game).  It is stated as
\* such for the passes at a chance node, and for every pass with CanPlay
\* written for ENABLED <<play_random_game>>_vars and, every step of the run
\* that changes the state being a pass of the loop, <<TRUE>>_vars for
\* <<play_random_game>>_vars.
SpecFair ==
    /\ InitFair /\ [][play_random_game]_vars
    /\ WF_vars(current_player(State) = CHANCE_PLAYER /\ play_random_game)
    /\ ([]<>(~CanPlay) \/ []<><<TRUE>>_vars)

AllMined(s, frontier) ==
    \A h \in 1..FrontierCap(s, frontier) : s.reality[frontier[h]].suit = SPADES

====
